---- MODULE Spec2Model ----
\* Command authorization layer of mcp-kubernetes: the security Validator
\* (pkg/security), the structured kubectl tool mapper (pkg/kubectl), the
\* per-family executors and the start-up sequence of the service (pkg/server).
\*
\* A Go string is a sequence of one-character strings, so that tokenizing,
\* prefix tests and the regular expressions of the Validator are computed on
\* the text as the code computes them.  Access levels, tool names, error
\* messages and program counters are only ever compared for equality and stay
\* TLA+ strings.
EXTENDS Integers, Sequences, FiniteSets, TLC

VARIABLES
    pc,                  \* where the process is: "new", "parsed", "failed", "serving"; "validator" or "executor" in the pure-function runs
    cfg,                 \* config.ConfigData (AccessLevel, AllowNamespaces, ValidateClusterRole, SecurityConfig)
    permissionMetadata,  \* server.PermissionMetadata
    mcpServer,           \* the structured kubectl tools registered with the MCP server, in order
    call,                \* the tool call being handled, with what its handler did
    goroutines,          \* the goroutines of the concurrent runs: where each is, and its locals
    pr,                  \* the kubectl.PendingRequest the goroutines share (mu, done, result, err)
    worker               \* the kubectl.Worker and the subscription of its topic

vars == <<pc, cfg, permissionMetadata, mcpServer, call, goroutines, pr, worker>>

\* the variables of the server and of the pure-function runs
sequential == <<pc, cfg, permissionMetadata, mcpServer, call>>

\* the variables of the concurrent runs
concurrent == <<goroutines, pr, worker>>

-----------------------------------------------------------------------------
\* Go's strings package, on sequences of characters.

\* unicode.IsSpace / regexp \s, over the characters the model draws from
IsSpace(c) == c \in {" ", "\t"}

HasPrefix(s, prefix) ==
    /\ Len(s) >= Len(prefix)
    /\ SubSeq(s, 1, Len(prefix)) = prefix

HasSuffix(s, suffix) ==
    /\ Len(s) >= Len(suffix)
    /\ SubSeq(s, Len(s) - Len(suffix) + 1, Len(s)) = suffix

\* substr occurs in s at index i
OccursAt(s, i, substr) ==
    /\ i >= 1
    /\ i + Len(substr) - 1 <= Len(s)
    /\ SubSeq(s, i, i + Len(substr) - 1) = substr

Contains(s, substr) == \E i \in 1..(Len(s) + 1) : OccursAt(s, i, substr)

RECURSIVE FieldsFrom(_, _, _, _)
FieldsFrom(s, i, cur, acc) ==
    IF i > Len(s)
    THEN (IF cur = <<>> THEN acc ELSE Append(acc, cur))
    ELSE IF IsSpace(s[i])
         THEN FieldsFrom(s, i + 1, <<>>, IF cur = <<>> THEN acc ELSE Append(acc, cur))
         ELSE FieldsFrom(s, i + 1, Append(cur, s[i]), acc)

\* strings.Fields: the maximal runs of non-space characters
Fields(s) == FieldsFrom(s, 1, <<>>, <<>>)

RECURSIVE Join(_, _)
\* strings.Join
Join(parts, sep) ==
    IF parts = <<>> THEN <<>>
    ELSE IF Len(parts) = 1 THEN parts[1]
    ELSE parts[1] \o sep \o Join(Tail(parts), sep)

RECURSIVE SplitFrom(_, _, _, _)
SplitFrom(s, sep, i, cur) ==
    IF i > Len(s) THEN <<cur>>
    ELSE IF s[i] = sep
         THEN <<cur>> \o SplitFrom(s, sep, i + 1, <<>>)
         ELSE SplitFrom(s, sep, i + 1, Append(cur, s[i]))

\* strings.Split on a one-character separator
Split(s, sep) == SplitFrom(s, sep, 1, <<>>)

RECURSIVE TrimLeft(_)
TrimLeft(s) == IF s # <<>> /\ IsSpace(s[1]) THEN TrimLeft(Tail(s)) ELSE s

RECURSIVE TrimRight(_)
TrimRight(s) ==
    IF s # <<>> /\ IsSpace(s[Len(s)]) THEN TrimRight(SubSeq(s, 1, Len(s) - 1)) ELSE s

\* strings.TrimSpace
TrimSpace(s) == TrimRight(TrimLeft(s))

\* the elements of a sequence
Range(seq) == {seq[i] : i \in DOMAIN seq}

-----------------------------------------------------------------------------
\* pkg/security: command types, access levels and the operation tables.

CommandTypeKubectl == <<"k","u","b","e","c","t","l">>
CommandTypeHelm    == <<"h","e","l","m">>
CommandTypeCilium  == <<"c","i","l","i","u","m">>
CommandTypeHubble  == <<"h","u","b","b","l","e">>

AccessLevelReadOnly  == "readonly"
AccessLevelReadWrite == "readwrite"
AccessLevelAdmin     == "admin"

KubectlReadOperations ==
    << <<"g","e","t">>, <<"d","e","s","c","r","i","b","e">>, <<"e","x","p","l","a","i","n">>,
       <<"l","o","g","s">>, <<"t","o","p">>, <<"a","u","t","h">>,
       <<"c","o","n","f","i","g">>, <<"c","l","u","s","t","e","r","-","i","n","f","o">>,
       <<"a","p","i","-","r","e","s","o","u","r","c","e","s">>,
       <<"a","p","i","-","v","e","r","s","i","o","n","s">>, <<"v","e","r","s","i","o","n">>,
       <<"d","i","f","f">>, <<"c","o","m","p","l","e","t","i","o","n">>, <<"h","e","l","p">>,
       <<"k","u","s","t","o","m","i","z","e">>, <<"o","p","t","i","o","n","s">>,
       <<"p","l","u","g","i","n">>, <<"p","r","o","x","y">>,
       <<"w","a","i","t">>, <<"e","v","e","n","t","s">> >>

KubectlReadWriteOperations ==
    << <<"c","r","e","a","t","e">>, <<"d","e","l","e","t","e">>, <<"a","p","p","l","y">>,
       <<"e","x","p","o","s","e">>, <<"r","u","n">>, <<"s","e","t">>,
       <<"r","o","l","l","o","u","t">>, <<"s","c","a","l","e">>,
       <<"a","u","t","o","s","c","a","l","e">>, <<"l","a","b","e","l">>,
       <<"a","n","n","o","t","a","t","e">>, <<"p","a","t","c","h">>,
       <<"r","e","p","l","a","c","e">>, <<"c","p">>, <<"e","x","e","c">> >>

\* an admin table that also lists a read-write operation
KubectlAdminOperationsWithDelete ==
    <<<<"c","o","r","d","o","n">>, <<"u","n","c","o","r","d","o","n">>, <<"d","r","a","i","n">>, <<"t","a","i","n","t">>, <<"c","e","r","t","i","f","i","c","a","t","e">>, <<"d","e","l","e","t","e">>>>

KubectlAdminOperations ==
    << <<"c","o","r","d","o","n">>, <<"u","n","c","o","r","d","o","n">>, <<"d","r","a","i","n">>,
       <<"t","a","i","n","t">>, <<"c","e","r","t","i","f","i","c","a","t","e">> >>

HelmReadOperations ==
    << <<"g","e","t">>, <<"h","i","s","t","o","r","y">>, <<"l","i","s","t">>,
       <<"s","h","o","w">>, <<"s","t","a","t","u","s">>, <<"s","e","a","r","c","h">>,
       <<"r","e","p","o">>, <<"e","n","v">>, <<"v","e","r","s","i","o","n">>,
       <<"v","e","r","i","f","y">>, <<"c","o","m","p","l","e","t","i","o","n">>, <<"h","e","l","p">> >>

CiliumReadOperations ==
    << <<"s","t","a","t","u","s">>, <<"v","e","r","s","i","o","n">>, <<"c","o","n","f","i","g">>,
       <<"h","e","l","p">>, <<"c","o","n","t","e","x","t">>,
       <<"c","o","n","n","e","c","t","i","v","i","t","y">>,
       <<"e","n","d","p","o","i","n","t">>, <<"i","d","e","n","t","i","t","y">>, <<"i","p">>,
       <<"m","a","p">>, <<"m","e","t","r","i","c","s">>, <<"m","o","n","i","t","o","r">>,
       <<"p","o","l","i","c","y">>, <<"h","u","b","b","l","e">>, <<"b","p","f">>,
       <<"l","i","s","t">>, <<"o","b","s","e","r","v","e">>, <<"s","e","r","v","i","c","e">> >>

HubbleReadOperations ==
    << <<"s","t","a","t","u","s">>, <<"v","e","r","s","i","o","n">>, <<"h","e","l","p">>,
       <<"o","b","s","e","r","v","e">>, <<"s","t","a","t","u","s">>, <<"l","i","s","t">>,
       <<"c","o","n","f","i","g">> >>

\* a Go error: nil, or a message with the value interpolated into it (if any)
nil == [Message |-> "", arg |-> <<>>]

\* &ValidationError{Message: ...} / fmt.Errorf(...)
Error(message, arg) == [Message |-> message, arg |-> arg]

\* NewSecurityConfig
NewSecurityConfig ==
    [AccessLevel |-> AccessLevelReadOnly,
     allowedNamespaces |-> <<>>,
     allowedNamespacesRe |-> <<>>]

regexSpecialChars == {".", "*", "+", "?", "[", "]", "(", ")", "{", "}", "|", "^", "$", "\\"}

\* The regular expressions an allow-list token can give, for tokens written
\* with literal characters, ".", a postfix "*", "|" and the anchors: a pattern
\* is kept as its source text "^" + ns + "$".

\* the branches of a pattern: its text split at the top-level "|"
Branches(pattern) == Split(pattern, "|")

\* regexp.Compile succeeds: no "*" without an operand (at the start of the
\* pattern or right after "|") and no stacked repetition "**"
RegexpCompiles(pattern) ==
    /\ \A b \in Range(Tail(Branches(pattern))) : ~HasPrefix(b, <<"*">>)
    /\ ~HasPrefix(pattern, <<"*">>)
    /\ ~Contains(pattern, <<"*","*">>)

\* one atom of a branch matches the character after position p of s
\* (assertions consume nothing and are handled by MatchHere)
AtomMatches(atom, s, p) ==
    /\ p < Len(s)
    /\ atom \notin {"^", "$"}
    /\ (atom = "." \/ atom = s[p + 1])

RECURSIVE MatchHere(_, _, _, _)
\* branch, from its item j on, matches s starting after position p
MatchHere(branch, j, s, p) ==
    IF j > Len(branch) THEN TRUE
    ELSE IF j + 1 <= Len(branch) /\ branch[j + 1] = "*"
    THEN \/ MatchHere(branch, j + 2, s, p)
         \/ AtomMatches(branch[j], s, p) /\ MatchHere(branch, j, s, p + 1)
    ELSE IF branch[j] = "^" THEN p = 0 /\ MatchHere(branch, j + 1, s, p)
    ELSE IF branch[j] = "$" THEN p = Len(s) /\ MatchHere(branch, j + 1, s, p)
    ELSE AtomMatches(branch[j], s, p) /\ MatchHere(branch, j + 1, s, p + 1)

\* regexp.Regexp.MatchString: some branch matches somewhere in the text
MatchString(pattern, namespace) ==
    \E b \in Range(Branches(pattern)) :
        \E p \in 0..Len(namespace) : MatchHere(b, 1, namespace, p)

RECURSIVE SetAllowedNamespacesLoop(_, _)
\* the loop of SetAllowedNamespaces over the comma-separated tokens
SetAllowedNamespacesLoop(tokens, s) ==
    IF tokens = <<>> THEN s
    ELSE LET ns == TrimSpace(Head(tokens))
             isRegex == \E i \in DOMAIN ns : ns[i] \in regexSpecialChars
         IN  IF ns = <<>>
             THEN SetAllowedNamespacesLoop(Tail(tokens), s)
             ELSE IF isRegex /\ RegexpCompiles(<<"^">> \o ns \o <<"$">>)
             THEN SetAllowedNamespacesLoop(Tail(tokens),
                      [s EXCEPT !.allowedNamespacesRe = Append(@, <<"^">> \o ns \o <<"$">>)])
             ELSE SetAllowedNamespacesLoop(Tail(tokens),
                      [s EXCEPT !.allowedNamespaces = Append(@, ns)])

\* SecurityConfig.SetAllowedNamespaces
SetAllowedNamespaces(s, namespaces) ==
    LET cleared == [s EXCEPT !.allowedNamespaces = <<>>, !.allowedNamespacesRe = <<>>]
    IN  IF namespaces = <<>> THEN cleared
        ELSE SetAllowedNamespacesLoop(Split(namespaces, ","), cleared)

\* upper-case letters of the namespaces drawn, lowered
ToLower(str) == [i \in DOMAIN str |-> IF str[i] = "A" THEN "a" ELSE str[i]]

\* IsNamespaceAllowed comparing names without regard to case
IsNamespaceAllowedFold(s, namespace) ==
    IF Len(s.allowedNamespaces) = 0 /\ Len(s.allowedNamespacesRe) = 0
    THEN TRUE
    ELSE \E i \in DOMAIN s.allowedNamespaces :
             ToLower(s.allowedNamespaces[i]) = ToLower(namespace)

\* SecurityConfig.IsNamespaceAllowed
IsNamespaceAllowed(s, namespace) ==
    IF Len(s.allowedNamespaces) = 0 /\ Len(s.allowedNamespacesRe) = 0
    THEN TRUE
    ELSE \/ \E i \in DOMAIN s.allowedNamespaces : s.allowedNamespaces[i] = namespace
         \/ \E i \in DOMAIN s.allowedNamespacesRe : MatchString(s.allowedNamespacesRe[i], namespace)

-----------------------------------------------------------------------------
\* pkg/security: the Validator.

getReadOperationsList(commandType) ==
    CASE commandType = CommandTypeKubectl -> KubectlReadOperations
      [] commandType = CommandTypeHelm    -> HelmReadOperations
      [] commandType = CommandTypeCilium  -> CiliumReadOperations
      [] commandType = CommandTypeHubble  -> HubbleReadOperations
      [] OTHER -> <<>>

\* a read-write table for helm as well
getReadWriteOperationsListWithHelm(commandType) ==
    CASE commandType = CommandTypeKubectl -> KubectlReadWriteOperations
      [] commandType = CommandTypeHelm -> << <<"i","n","s","t","a","l","l">>, <<"u","p","g","r","a","d","e">>, <<"u","n","i","n","s","t","a","l","l">> >>
      [] OTHER -> <<>>

getReadWriteOperationsList(commandType) ==
    CASE commandType = CommandTypeKubectl -> KubectlReadWriteOperations
      [] OTHER -> <<>>

getAdminOperationsList(commandType) ==
    CASE commandType = CommandTypeKubectl -> KubectlAdminOperations
      [] OTHER -> <<>>

isOperationInList(operation, allowedOperations) ==
    \E i \in DOMAIN allowedOperations : operation = allowedOperations[i]

RECURSIVE FirstOperation(_, _)
\* the loop of extractOperationFromCommand: the first part that has no "-"
\* prefix and is not the command name, or "" when there is none
FirstOperation(cmdParts, commandType) ==
    IF cmdParts = <<>> THEN <<>>
    ELSE IF ~HasPrefix(Head(cmdParts), <<"-">>) /\ Head(cmdParts) # commandType
         THEN Head(cmdParts)
         ELSE FirstOperation(Tail(cmdParts), commandType)

extractOperationFromCommand(command, commandType) ==
    FirstOperation(Fields(command), commandType)

\* where the flag literal of (?:-n|--namespace) ends when it starts at i, else 0
NamespaceFlagEnd(command, i) ==
    IF OccursAt(command, i, <<"-","n">>) THEN i + 1
    ELSE IF OccursAt(command, i, <<"-","-","n","a","m","e","s","p","a","c","e">>) THEN i + 10
    ELSE 0

\* (?:-n|--namespace)[\s=]([^\s]+) matches starting at i
NamespacePatternAt(command, i) ==
    LET e == NamespaceFlagEnd(command, i)
    IN  /\ e > 0
        /\ e + 2 <= Len(command)
        /\ (IsSpace(command[e + 1]) \/ command[e + 1] = "=")
        /\ ~IsSpace(command[e + 2])

RECURSIVE NonSpaceRun(_, _)
\* [^\s]+ from index i: the longest run of non-space characters
NonSpaceRun(command, i) ==
    IF i > Len(command) \/ IsSpace(command[i]) THEN <<>>
    ELSE <<command[i]>> \o NonSpaceRun(command, i + 1)

\* (\S+)/(\S+) matches somewhere in the command
ResourcePatternMatches(command) ==
    \E k \in 2..(Len(command) - 1) :
        command[k] = "/" /\ ~IsSpace(command[k - 1]) /\ ~IsSpace(command[k + 1])

\* extractNamespaceFromCommand without the resource/name rule
extractNamespaceFlagOnly(command) ==
    LET starts == {i \in 1..Len(command) : NamespacePatternAt(command, i)}
    IN  IF starts # {}
        THEN LET i == CHOOSE j \in starts : \A k \in starts : j <= k
             IN  NonSpaceRun(command, NamespaceFlagEnd(command, i) + 2)
        ELSE <<>>

extractNamespaceFromCommand(command) ==
    LET starts == {i \in 1..Len(command) : NamespacePatternAt(command, i)}
    IN  IF starts # {}
        THEN LET i == CHOOSE j \in starts : \A k \in starts : j <= k
             IN  NonSpaceRun(command, NamespaceFlagEnd(command, i) + 2)
        ELSE IF ResourcePatternMatches(command)
        THEN <<"d","e","f","a","u","l","t">>
        ELSE IF \/ Contains(command, <<"-","-","a","l","l","-","n","a","m","e","s","p","a","c","e","s">>)
                \/ Contains(command, <<" ","-","A">>)
                \/ HasSuffix(command, <<" ","-","A">>)
        THEN <<"*">>
        ELSE <<>>

\* validateAccessLevel with a ReadWrite branch that lets every listed operation pass
validateAccessLevelLax(s, command, commandType) ==
    LET operation == extractOperationFromCommand(command, commandType)
        listed == \/ isOperationInList(operation, getReadOperationsList(commandType))
                  \/ isOperationInList(operation, getReadWriteOperationsList(commandType))
                  \/ isOperationInList(operation, getAdminOperationsList(commandType))
    IN  IF s.AccessLevel = AccessLevelReadOnly
        THEN IF ~isOperationInList(operation, getReadOperationsList(commandType))
             THEN Error("Error: Cannot execute write or admin operations in read-only mode", <<>>)
             ELSE nil
        ELSE IF ~listed THEN Error("Error: Unknown operation", <<>>)
        ELSE nil

validateAccessLevel(s, command, commandType) ==
    LET readOperations == getReadOperationsList(commandType)
        readWriteOperations == getReadWriteOperationsList(commandType)
        adminOperations == getAdminOperationsList(commandType)
        operation == extractOperationFromCommand(command, commandType)
    IN  CASE s.AccessLevel = AccessLevelReadOnly ->
                IF ~isOperationInList(operation, readOperations)
                THEN Error("Error: Cannot execute write or admin operations in read-only mode", <<>>)
                ELSE nil
          [] s.AccessLevel = AccessLevelReadWrite ->
                IF ~isOperationInList(operation, readOperations)
                   /\ ~isOperationInList(operation, readWriteOperations)
                THEN IF isOperationInList(operation, adminOperations)
                     THEN Error("Error: Cannot execute admin operations in read-write mode", <<>>)
                     ELSE Error("Error: Operation not allowed in read-write mode", <<>>)
                ELSE nil
          [] s.AccessLevel = AccessLevelAdmin ->
                IF /\ ~isOperationInList(operation, readOperations)
                   /\ ~isOperationInList(operation, readWriteOperations)
                   /\ ~isOperationInList(operation, adminOperations)
                THEN Error("Error: Unknown operation", <<>>)
                ELSE nil
          [] OTHER -> Error("Error: Invalid access level configuration", <<>>)

validateNamespaceScope(s, command) ==
    LET namespace == extractNamespaceFromCommand(command)
    IN  IF /\ namespace = <<"*">>
           /\ (Len(s.allowedNamespaces) > 0 \/ Len(s.allowedNamespacesRe) > 0)
        THEN Error("Error: Access to all namespaces is restricted by security configuration", <<>>)
        ELSE IF namespace # <<>> /\ namespace # <<"*">> /\ ~IsNamespaceAllowed(s, namespace)
        THEN Error("Error: Access to namespace '%s' is denied by security configuration", namespace)
        ELSE nil

\* ValidateCommand without the namespace check
ValidateCommandTierOnly(s, command, commandType) ==
    validateAccessLevel(s, command, commandType)

\* Validator.ValidateCommand, for the Validator built on SecurityConfig s
ValidateCommand(s, command, commandType) ==
    IF validateAccessLevel(s, command, commandType) # nil
    THEN validateAccessLevel(s, command, commandType)
    ELSE validateNamespaceScope(s, command)

-----------------------------------------------------------------------------
\* The structured kubectl tools.

\* a parameter that is absent from the request, or not a string
NotAString == <<"<nil>">>

\* a Go error whose format interpolates two values: each value is followed
\* by ";" in arg
Errorf2(message, a, b) == [Message |-> message, arg |-> a \o <<";">> \o b \o <<";">>]

\* is operation one of validOps
InOps(operation, validOps) == \E i \in DOMAIN validOps : validOps[i] = operation

validateResourcesOperation(operation) ==
    LET readOnlyOps == << <<"g","e","t">>, <<"d","e","s","c","r","i","b","e">> >>
        writeOps == << <<"c","r","e","a","t","e">>, <<"d","e","l","e","t","e">>, <<"a","p","p","l","y">>, <<"p","a","t","c","h">>, <<"r","e","p","l","a","c","e">> >>
        allOps == readOnlyOps \o writeOps
    IN  IF InOps(operation, readOnlyOps) THEN nil
        ELSE IF InOps(operation, writeOps) THEN nil
        ELSE Errorf2("invalid operation '%s' for resources tool. Valid operations: %s",
                     operation, Join(allOps, <<",", " ">>))

\* validateWorkloadsOperation without the check of the rollout subcommand
validateWorkloadsOperationAnySubcommand(operation, resource) ==
    LET validOps == <<<<"r","u","n">>, <<"e","x","p","o","s","e">>, <<"s","c","a","l","e">>, <<"a","u","t","o","s","c","a","l","e">>, <<"r","o","l","l","o","u","t">>>>
    IN  IF ~InOps(operation, validOps)
        THEN Errorf2("invalid operation '%s' for workloads tool. Valid operations: %s",
                     operation, Join(validOps, <<",", " ">>))
        ELSE nil

validateWorkloadsOperation(operation, resource) ==
    LET validOps == << <<"r","u","n">>, <<"e","x","p","o","s","e">>, <<"s","c","a","l","e">>, <<"a","u","t","o","s","c","a","l","e">>, <<"r","o","l","l","o","u","t">> >>
        validSubcmds == << <<"s","t","a","t","u","s">>, <<"h","i","s","t","o","r","y">>, <<"u","n","d","o">>, <<"r","e","s","t","a","r","t">>, <<"p","a","u","s","e">>, <<"r","e","s","u","m","e">> >>
    IN  IF ~InOps(operation, validOps)
        THEN Errorf2("invalid operation '%s' for workloads tool. Valid operations: %s",
                     operation, Join(validOps, <<",", " ">>))
        ELSE IF operation = <<"r","o","l","l","o","u","t">> /\ ~InOps(resource, validSubcmds)
        THEN Errorf2("invalid rollout subcommand '%s'. Valid subcommands: %s",
                     resource, Join(validSubcmds, <<",", " ">>))
        ELSE nil

validateMetadataOperation(operation) ==
    LET validOps == << <<"l","a","b","e","l">>, <<"a","n","n","o","t","a","t","e">>, <<"s","e","t">> >>
    IN  IF InOps(operation, validOps) THEN nil
        ELSE Errorf2("invalid operation '%s' for metadata tool. Valid operations: %s",
                     operation, Join(validOps, <<",", " ">>))

validateDiagnosticsOperation(operation) ==
    LET validOps == << <<"l","o","g","s">>, <<"e","v","e","n","t","s">>, <<"t","o","p">>, <<"e","x","e","c">>, <<"c","p">> >>
    IN  IF InOps(operation, validOps) THEN nil
        ELSE Errorf2("invalid operation '%s' for diagnostics tool. Valid operations: %s",
                     operation, Join(validOps, <<",", " ">>))

validateClusterOperation(operation) ==
    LET validOps == << <<"c","l","u","s","t","e","r","-","i","n","f","o">>, <<"a","p","i","-","r","e","s","o","u","r","c","e","s">>, <<"a","p","i","-","v","e","r","s","i","o","n","s">>, <<"e","x","p","l","a","i","n">> >>
    IN  IF InOps(operation, validOps) THEN nil
        ELSE Errorf2("invalid operation '%s' for cluster tool. Valid operations: %s",
                     operation, Join(validOps, <<",", " ">>))

validateNodesOperation(operation) ==
    LET validOps == << <<"c","o","r","d","o","n">>, <<"u","n","c","o","r","d","o","n">>, <<"d","r","a","i","n">>, <<"t","a","i","n","t">> >>
    IN  IF InOps(operation, validOps) THEN nil
        ELSE Errorf2("invalid operation '%s' for nodes tool. Valid operations: %s",
                     operation, Join(validOps, <<",", " ">>))

validateConfigOperation(operation, resource) ==
    LET validSubcmds == << <<"a","p","p","r","o","v","e">>, <<"d","e","n","y">> >>
    IN  CASE operation = <<"d","i","f","f">> -> nil
          [] operation = <<"a","u","t","h">> ->
                IF resource # <<"c","a","n","-","i">>
                THEN Error("auth operation requires 'can-i' as resource", <<>>)
                ELSE nil
          [] operation = <<"c","e","r","t","i","f","i","c","a","t","e">> ->
                IF InOps(resource, validSubcmds) THEN nil
                ELSE Errorf2("invalid certificate subcommand '%s'. Valid subcommands: %s",
                             resource, Join(validSubcmds, <<",", " ">>))
          [] OTHER ->
                Error("invalid operation '%s' for config tool. Valid operations: diff, auth, certificate",
                      operation)

validateCombination(toolName, operation, resource) ==
    CASE toolName = "kubectl_resources" -> validateResourcesOperation(operation)
      [] toolName = "kubectl_workloads" -> validateWorkloadsOperation(operation, resource)
      [] toolName = "kubectl_metadata" -> validateMetadataOperation(operation)
      [] toolName = "kubectl_diagnostics" -> validateDiagnosticsOperation(operation)
      [] toolName = "kubectl_cluster" -> validateClusterOperation(operation)
      [] toolName = "kubectl_nodes" -> validateNodesOperation(operation)
      [] toolName = "kubectl_config" -> validateConfigOperation(operation, resource)
      [] OTHER -> Error("unknown tool: %s", <<toolName>>)

MapOperationToCommand(toolName, operation, resource) ==
    CASE toolName = "kubectl_workloads" /\ operation = <<"r","o","l","l","o","u","t">> ->
                <<"r","o","l","l","o","u","t"," ">> \o resource
      [] toolName = "kubectl_config" /\ operation = <<"a","u","t","h">> ->
                <<"a","u","t","h"," ">> \o resource
      [] toolName = "kubectl_config" /\ operation = <<"c","e","r","t","i","f","i","c","a","t","e">> ->
                <<"c","e","r","t","i","f","i","c","a","t","e"," ">> \o resource
      [] toolName \in {"kubectl_resources", "kubectl_workloads", "kubectl_metadata",
                       "kubectl_diagnostics", "kubectl_cluster", "kubectl_nodes",
                       "kubectl_config"} -> operation
      [] OTHER -> <<>>

\* the Name fields of GetReadOnlyKubectlCommands()
GetReadOnlyKubectlCommands ==
    << <<"g","e","t">>, <<"d","e","s","c","r","i","b","e">>, <<"e","x","p","l","a","i","n">>, <<"l","o","g","s">>, <<"a","p","i","-","r","e","s","o","u","r","c","e","s">>, <<"a","p","i","-","v","e","r","s","i","o","n","s">>,
       <<"d","i","f","f">>, <<"c","l","u","s","t","e","r","-","i","n","f","o">>, <<"t","o","p">>, <<"e","v","e","n","t","s">>, <<"a","u","t","h">> >>

\* the Name fields of GetReadWriteKubectlCommands()
GetReadWriteKubectlCommands ==
    << <<"c","r","e","a","t","e">>, <<"d","e","l","e","t","e">>, <<"a","p","p","l","y">>, <<"e","x","p","o","s","e">>, <<"r","u","n">>, <<"s","e","t">>, <<"r","o","l","l","o","u","t">>,
       <<"s","c","a","l","e">>, <<"a","u","t","o","s","c","a","l","e">>, <<"l","a","b","e","l">>, <<"a","n","n","o","t","a","t","e">>, <<"p","a","t","c","h">>, <<"r","e","p","l","a","c","e">>,
       <<"c","p">>, <<"e","x","e","c">> >>

\* the Name fields of GetAdminKubectlCommands()
GetAdminKubectlCommands ==
    << <<"c","o","r","d","o","n">>, <<"u","n","c","o","r","d","o","n">>, <<"d","r","a","i","n">>, <<"t","a","i","n","t">>, <<"c","e","r","t","i","f","i","c","a","t","e">> >>

\* buildCommand appending the resource to a fragment that already holds its
\* subcommand
buildCommandKeepingResource(kubectlCommand, resource, args) ==
    Join(<<kubectlCommand>>
         \o (IF resource # <<>> THEN <<resource>> ELSE <<>>)
         \o (IF args # <<>> THEN <<args>> ELSE <<>>), <<" ">>)

buildCommand(kubectlCommand, resource, args) ==
    IF Contains(kubectlCommand, <<" ">>)
    THEN IF args # <<>> THEN kubectlCommand \o <<" ">> \o args ELSE kubectlCommand
    ELSE Join(<<kubectlCommand>>
              \o (IF resource # <<>> THEN <<resource>> ELSE <<>>)
              \o (IF args # <<>> THEN <<args>> ELSE <<>>), <<" ">>)

determineCommandCategory(command) ==
    LET parts == Fields(command)
    IN  IF Len(parts) = 0 THEN <<"r","e","a","d","-","o","n","l","y">>
        ELSE IF InOps(parts[1], GetReadOnlyKubectlCommands) THEN <<"r","e","a","d","-","o","n","l","y">>
        ELSE IF InOps(parts[1], GetAdminKubectlCommands) THEN <<"a","d","m","i","n">>
        ELSE IF /\ parts[1] = <<"r","o","l","l","o","u","t">> /\ Len(parts) > 1
                /\ parts[2] \in {<<"s","t","a","t","u","s">>, <<"h","i","s","t","o","r","y">>}
        THEN <<"r","e","a","d","-","o","n","l","y">>
        ELSE IF parts[1] = <<"a","u","t","h">> /\ Len(parts) > 1 /\ parts[2] = <<"c","a","n","-","i">>
        THEN <<"r","e","a","d","-","o","n","l","y">>
        ELSE <<"r","e","a","d","-","w","r","i","t","e">>

\* checkAccessLevel letting every command pass
checkAccessLevelOff(command, c) == nil

\* checkAccessLevel reads cfg.AccessLevel, the string copy of the level
checkAccessLevel(command, c) ==
    LET category == determineCommandCategory(command)
    IN  CASE c.AccessLevel = "readonly" ->
                IF category # <<"r","e","a","d","-","o","n","l","y">>
                THEN Error("command requires %s access, but current access level is read-only",
                           category)
                ELSE nil
          [] c.AccessLevel = "readwrite" ->
                IF category = <<"a","d","m","i","n">>
                THEN Error("command requires admin access, but current access level is read-write",
                           <<>>)
                ELSE nil
          [] c.AccessLevel = "admin" -> nil
          [] OTHER -> Error("unknown access level: %s", <<c.AccessLevel>>)

\* the command line KubectlExecutor.executeKubectlCommand hands to process.Run
executeKubectlCommand(cmd, args) ==
    IF HasPrefix(cmd, <<"k","u","b","e","c","t","l"," ">>) THEN cmd
    ELSE IF args # <<>> THEN <<"k","u","b","e","c","t","l"," ">> \o cmd \o <<" ">> \o args
    ELSE <<"k","u","b","e","c","t","l"," ">> \o cmd

-----------------------------------------------------------------------------
\* Registration of the structured kubectl tools.  A tool is its name and the
\* operation vocabulary its schema advertises.

createResourcesTool(readOnly) ==
    [Name |-> "kubectl_resources",
     operations |-> IF readOnly
                    THEN << <<"g","e","t">>, <<"d","e","s","c","r","i","b","e">> >>
                    ELSE << <<"g","e","t">>, <<"d","e","s","c","r","i","b","e">>, <<"c","r","e","a","t","e">>, <<"d","e","l","e","t","e">>, <<"a","p","p","l","y">>,
                            <<"p","a","t","c","h">>, <<"r","e","p","l","a","c","e">> >>]

createWorkloadsTool ==
    [Name |-> "kubectl_workloads",
     operations |-> << <<"r","u","n">>, <<"e","x","p","o","s","e">>, <<"s","c","a","l","e">>, <<"a","u","t","o","s","c","a","l","e">>, <<"r","o","l","l","o","u","t">> >>]

createMetadataTool ==
    [Name |-> "kubectl_metadata",
     operations |-> << <<"l","a","b","e","l">>, <<"a","n","n","o","t","a","t","e">>, <<"s","e","t">> >>]

createDiagnosticsTool ==
    [Name |-> "kubectl_diagnostics",
     operations |-> << <<"l","o","g","s">>, <<"e","v","e","n","t","s">>, <<"t","o","p">>, <<"e","x","e","c">>, <<"c","p">> >>]

createClusterTool ==
    [Name |-> "kubectl_cluster",
     operations |-> << <<"c","l","u","s","t","e","r","-","i","n","f","o">>, <<"a","p","i","-","r","e","s","o","u","r","c","e","s">>, <<"a","p","i","-","v","e","r","s","i","o","n","s">>, <<"e","x","p","l","a","i","n">> >>]

createNodesTool ==
    [Name |-> "kubectl_nodes",
     operations |-> << <<"c","o","r","d","o","n">>, <<"u","n","c","o","r","d","o","n">>, <<"d","r","a","i","n">>, <<"t","a","i","n","t">> >>]

createConfigTool(readOnly) ==
    [Name |-> "kubectl_config",
     operations |-> IF readOnly
                    THEN << <<"d","i","f","f">>, <<"a","u","t","h">> >>
                    ELSE << <<"d","i","f","f">>, <<"a","u","t","h">>, <<"c","e","r","t","i","f","i","c","a","t","e">> >>]

\* the registry of RegisterKubectlTools: creator names the tool created
toolRegistry ==
    << [creator |-> "createResourcesTool", minAccess |-> "readonly", readOnlyMode |-> TRUE],
       [creator |-> "createDiagnosticsTool", minAccess |-> "readonly", readOnlyMode |-> FALSE],
       [creator |-> "createClusterTool", minAccess |-> "readonly", readOnlyMode |-> FALSE],
       [creator |-> "createConfigTool", minAccess |-> "readonly", readOnlyMode |-> TRUE],
       [creator |-> "createWorkloadsTool", minAccess |-> "readwrite", readOnlyMode |-> FALSE],
       [creator |-> "createMetadataTool", minAccess |-> "readwrite", readOnlyMode |-> FALSE],
       [creator |-> "createNodesTool", minAccess |-> "admin", readOnlyMode |-> FALSE] >>

isValidAccessLevel(accessLevel) ==
    accessLevel \in {"readonly", "readwrite", "admin"}

\* the accessLevels map of shouldRegisterTool; a missing key reads as 0
accessLevels(level) ==
    CASE level = "readonly" -> 1
      [] level = "readwrite" -> 2
      [] level = "admin" -> 3
      [] OTHER -> 0

\* shouldRegisterTool with a strict comparison
shouldRegisterToolStrict(minAccess, currentAccess) ==
    accessLevels(currentAccess) > accessLevels(minAccess)

shouldRegisterTool(minAccess, currentAccess) ==
    accessLevels(currentAccess) >= accessLevels(minAccess)

createToolFromRegistration(reg, accessLevel) ==
    LET readOnly == accessLevel = "readonly" /\ reg.readOnlyMode
    IN  CASE reg.creator = "createResourcesTool" -> createResourcesTool(readOnly)
          [] reg.creator = "createConfigTool" -> createConfigTool(readOnly)
          [] reg.creator = "createDiagnosticsTool" -> createDiagnosticsTool
          [] reg.creator = "createClusterTool" -> createClusterTool
          [] reg.creator = "createWorkloadsTool" -> createWorkloadsTool
          [] reg.creator = "createMetadataTool" -> createMetadataTool
          [] OTHER -> createNodesTool

RECURSIVE RegisterLoop(_, _)
\* the loop of RegisterKubectlTools over the registry
RegisterLoop(registry, accessLevel) ==
    IF registry = <<>> THEN <<>>
    ELSE IF shouldRegisterTool(Head(registry).minAccess, accessLevel)
    THEN <<createToolFromRegistration(Head(registry), accessLevel)>>
         \o RegisterLoop(Tail(registry), accessLevel)
    ELSE RegisterLoop(Tail(registry), accessLevel)

RegisterKubectlTools(accessLevel) ==
    RegisterLoop(toolRegistry,
                 IF ~isValidAccessLevel(accessLevel) THEN "readonly" ELSE accessLevel)

\* the names of the tools registered
ToolNamesOf(tools) == {tools[i].Name : i \in DOMAIN tools}

-----------------------------------------------------------------------------
\* Inputs.

\* most tokens of a drawn command line
MaxTokens == 3

\* the tokens command lines are made of: the binary name, one operation per
\* tier, namespace flags and values, the all-namespaces markers and a
\* resource/name shorthand
CommandTokens ==
    { <<"k","u","b","e","c","t","l">>, <<"g","e","t">>, <<"d","e","l","e","t","e">>,
      <<"d","r","a","i","n">>, <<"-","n">>, <<"a">>, <<"A">>,
      <<"-","A">>, <<"-","-","a","l","l","-","n","a","m","e","s","p","a","c","e","s">>,
      <<"p","o","d","/","x">>,
      <<"-","-","n","a","m","e","s","p","a","c","e","=","a">>,
      <<"-","-","n","a","m","e","s","p","a","c","e","=","A">> }

\* token sequences of at most n tokens
TokenSeqs(n) == UNION {[1..k -> CommandTokens] : k \in 0..n}

\* the command lines drawn: tokens separated by single spaces
Commands == {Join(ts, <<" ">>) : ts \in TokenSeqs(MaxTokens)}

\* values of the --allow-namespaces flag
AllowNamespacesValues ==
    { <<>>, <<"a">>, <<"a",",","d","e","f","a","u","l","t">> }

AccessLevels == {AccessLevelReadOnly, AccessLevelReadWrite, AccessLevelAdmin}

\* no permission metadata yet (Initialize has not run)
NoMetadata ==
    [CurrentAccessLevel |-> "", RequestedAccessLevel |-> "", WasDowngraded |-> FALSE,
     ClusterRoleFound |-> FALSE, ValidationEnabled |-> FALSE, ValidationError |-> ""]

\* no tool call in progress
NoCall ==
    [entry |-> "none", toolName |-> "", operation |-> <<>>, resource |-> <<>>,
     args |-> <<>>, command |-> <<>>, commandType |-> <<>>, step |-> "",
     err |-> nil, ran |-> FALSE, ranCmd |-> <<>>,
     result |-> "none", resultText |-> nil, transportErr |-> nil,
     category |-> <<>>, metadata |-> NoMetadata]

\* config.NewConfig
NewConfig ==
    [AccessLevel |-> "readonly", AllowNamespaces |-> <<>>,
     ValidateClusterRole |-> FALSE, SecurityConfig |-> NewSecurityConfig]

-----------------------------------------------------------------------------
\* The Validator as a pure function: a SecurityConfig built as the package's
\* tests build it, and one ValidateCommand on a drawn command.

InitValidator ==
    /\ pc = "validator"
    /\ permissionMetadata = NoMetadata
    /\ mcpServer = <<>>
    /\ goroutines = <<>>
    /\ pr = <<>>
    /\ worker = <<>>
    /\ \E level \in AccessLevels, namespaces \in AllowNamespacesValues :
         cfg = [NewConfig EXCEPT
                  !.AccessLevel = level,
                  !.AllowNamespaces = namespaces,
                  !.SecurityConfig =
                      SetAllowedNamespaces([NewSecurityConfig EXCEPT !.AccessLevel = level],
                                           namespaces)]
    /\ \E command \in Commands :
         call = [NoCall EXCEPT !.entry = "input", !.command = command,
                               !.commandType = CommandTypeKubectl]

\* validator.ValidateCommand(command, commandType)
ApplyValidateCommand ==
    /\ pc = "validator"
    /\ call.entry = "input"
    /\ call' = [call EXCEPT
                  !.entry = "ValidateCommand",
                  !.step = "ValidateCommand",
                  !.err = ValidateCommand(cfg.SecurityConfig, call.command, call.commandType)]
    /\ UNCHANGED <<pc, cfg, permissionMetadata, mcpServer, goroutines, pr, worker>>

NextValidator == ApplyValidateCommand

SpecValidator == InitValidator /\ [][NextValidator]_vars

\* The Validator on commands of the other CLI families.
MaxFamilyTokens == 2

Families == {CommandTypeHelm, CommandTypeCilium, CommandTypeHubble}

FamilyTokens ==
    { <<"h","e","l","m">>, <<"c","i","l","i","u","m">>, <<"h","u","b","b","l","e">>, <<"l","i","s","t">>, <<"s","t","a","t","u","s">>, <<"o","b","s","e","r","v","e">>,
      <<"i","n","s","t","a","l","l">>, <<"u","n","i","n","s","t","a","l","l">>, <<"u","p","g","r","a","d","e">>, <<"d","e","l","e","t","e">>, <<"d","r","a","i","n">>,
      <<"-","n">>, <<"a">>, <<"A">> }

FamilyCommands ==
    {Join(ts, <<" ">>) : ts \in UNION {[1..k -> FamilyTokens] : k \in 0..MaxFamilyTokens}}

InitFamilies ==
    /\ pc = "validator"
    /\ permissionMetadata = NoMetadata
    /\ mcpServer = <<>>
    /\ goroutines = <<>>
    /\ pr = <<>>
    /\ worker = <<>>
    /\ \E level \in AccessLevels, namespaces \in AllowNamespacesValues :
         cfg = [NewConfig EXCEPT
                  !.AccessLevel = level,
                  !.AllowNamespaces = namespaces,
                  !.SecurityConfig =
                      SetAllowedNamespaces([NewSecurityConfig EXCEPT !.AccessLevel = level],
                                           namespaces)]
    /\ \E command \in FamilyCommands, commandType \in Families :
         call = [NoCall EXCEPT !.entry = "input", !.command = command,
                               !.commandType = commandType]

SpecFamilies == InitFamilies /\ [][NextValidator]_vars

\* an Execute that validates the combination before it looks at the types of
\* the parameters
KubectlToolExecutorExecuteLate(toolName, operation, resource, args, c, runErr) ==
    LET in == [NoCall EXCEPT !.entry = "KubectlToolExecutor.Execute",
                             !.toolName = toolName, !.operation = operation,
                             !.resource = resource, !.args = args,
                             !.commandType = CommandTypeKubectl,
                             !.step = "validateCombination"]
        fullCommand == buildCommand(MapOperationToCommand(toolName, operation, resource),
                                    resource, args)
    IN  IF validateCombination(toolName, operation, resource) # nil
        THEN [in EXCEPT !.err = validateCombination(toolName, operation, resource)]
        ELSE IF NotAString \in {operation, resource, args}
        THEN [in EXCEPT !.step = "parameters",
                        !.err = Error("args parameter is required and must be a string", <<>>)]
        ELSE IF checkAccessLevel(fullCommand, c) # nil
        THEN [in EXCEPT !.step = "checkAccessLevel", !.command = fullCommand,
                        !.err = checkAccessLevel(fullCommand, c)]
        ELSE IF ValidateCommand(c.SecurityConfig, fullCommand, CommandTypeKubectl) # nil
        THEN [in EXCEPT !.step = "ValidateCommand", !.command = fullCommand,
                        !.err = ValidateCommand(c.SecurityConfig, fullCommand, CommandTypeKubectl)]
        ELSE [in EXCEPT !.step = "run", !.command = fullCommand, !.err = runErr,
                        !.ran = TRUE, !.ranCmd = executeKubectlCommand(fullCommand, <<>>)]

\* KubectlToolExecutor.Execute: the record of one call, with the step it
\* stopped at; runErr is what process.Run returns when it is reached
KubectlToolExecutorExecute(toolName, operation, resource, args, c, runErr) ==
    LET in == [NoCall EXCEPT !.entry = "KubectlToolExecutor.Execute",
                             !.toolName = toolName, !.operation = operation,
                             !.resource = resource, !.args = args,
                             !.commandType = CommandTypeKubectl,
                             !.step = "parameters"]
        kubectlCommand == MapOperationToCommand(toolName, operation, resource)
        fullCommand == buildCommand(kubectlCommand, resource, args)
    IN  IF operation = NotAString
        THEN [in EXCEPT !.err = Error("operation parameter is required and must be a string", <<>>)]
        ELSE IF resource = NotAString
        THEN [in EXCEPT !.err = Error("resource parameter is required and must be a string", <<>>)]
        ELSE IF args = NotAString
        THEN [in EXCEPT !.err = Error("args parameter is required and must be a string", <<>>)]
        ELSE IF validateCombination(toolName, operation, resource) # nil
        THEN [in EXCEPT !.step = "validateCombination",
                        !.err = validateCombination(toolName, operation, resource)]
        ELSE IF checkAccessLevel(fullCommand, c) # nil
        THEN [in EXCEPT !.step = "checkAccessLevel", !.command = fullCommand,
                        !.err = checkAccessLevel(fullCommand, c)]
        ELSE IF ValidateCommand(c.SecurityConfig, fullCommand, CommandTypeKubectl) # nil
        THEN [in EXCEPT !.step = "ValidateCommand", !.command = fullCommand,
                        !.err = ValidateCommand(c.SecurityConfig, fullCommand, CommandTypeKubectl)]
        ELSE [in EXCEPT !.step = "run", !.command = fullCommand, !.err = runErr,
                        !.ran = TRUE, !.ranCmd = executeKubectlCommand(fullCommand, <<>>)]

\* an Execute that wraps every error it returns, denials included, as an
\* execution error
ExecutorExecuteWrapping(entry, command, commandType, c, runErr) ==
    LET in == [NoCall EXCEPT !.entry = entry, !.command = command,
                             !.commandType = commandType, !.step = "parameters"]
    IN  IF command = NotAString
        THEN [in EXCEPT !.command = <<>>, !.err = Error("invalid command parameter", <<>>)]
        ELSE IF ValidateCommand(c.SecurityConfig, command, commandType) # nil
        THEN [in EXCEPT !.step = "ValidateCommand",
                        !.err = Error("command execution error: %s", <<>>)]
        ELSE [in EXCEPT !.step = "run", !.err = runErr, !.ran = TRUE,
                        !.ranCmd = IF commandType = CommandTypeKubectl
                                   THEN executeKubectlCommand(command, <<>>)
                                   ELSE command]

\* KubectlExecutor.Execute, and the helm, cilium and hubble Execute, which
\* differ in the command type validated and in the binary run
ExecutorExecute(entry, command, commandType, c, runErr) ==
    LET in == [NoCall EXCEPT !.entry = entry, !.command = command,
                             !.commandType = commandType, !.step = "parameters"]
    IN  IF command = NotAString
        THEN [in EXCEPT !.command = <<>>, !.err = Error("invalid command parameter", <<>>)]
        ELSE IF ValidateCommand(c.SecurityConfig, command, commandType) # nil
        THEN [in EXCEPT !.step = "ValidateCommand",
                        !.err = ValidateCommand(c.SecurityConfig, command, commandType)]
        ELSE [in EXCEPT !.step = "run", !.err = runErr, !.ran = TRUE,
                        !.ranCmd = IF commandType = CommandTypeKubectl
                                   THEN executeKubectlCommand(command, <<>>)
                                   ELSE command]

\* KubectlExecutor.ExecuteSpecificCommand(cmd, params, cfg)
ExecuteSpecificCommand(cmd, argsParam, c, runErr) ==
    LET args == IF argsParam = NotAString THEN <<>> ELSE argsParam
        fullCmd == IF args # <<>> THEN cmd \o <<" ">> \o args ELSE cmd
        in == [NoCall EXCEPT !.entry = "KubectlExecutor.ExecuteSpecificCommand",
                             !.operation = cmd, !.args = argsParam,
                             !.command = fullCmd, !.commandType = CommandTypeKubectl,
                             !.step = "ValidateCommand"]
    IN  IF ValidateCommand(c.SecurityConfig, fullCmd, CommandTypeKubectl) # nil
        THEN [in EXCEPT !.err = ValidateCommand(c.SecurityConfig, fullCmd, CommandTypeKubectl)]
        ELSE [in EXCEPT !.step = "run", !.err = runErr, !.ran = TRUE,
                        !.ranCmd = executeKubectlCommand(cmd, args)]

-----------------------------------------------------------------------------
\* Inputs of the tools.

ToolNames ==
    {"kubectl_resources", "kubectl_workloads", "kubectl_metadata", "kubectl_diagnostics",
     "kubectl_cluster", "kubectl_nodes", "kubectl_config", ""}

Operations ==
    Range(GetReadOnlyKubectlCommands) \cup Range(GetReadWriteKubectlCommands)
    \cup Range(GetAdminKubectlCommands) \cup {<<"v","e","r","s","i","o","n">>, NotAString}

Resources ==
    {<<>>, <<"p","o","d","s">>, <<"s","t","a","t","u","s">>, <<"u","n","d","o">>, <<"c","a","n","-","i">>, <<"a","p","p","r","o","v","e">>, <<"d","e","n","y">>, NotAString}

ArgsValues ==
    {<<>>, <<"-","n"," ","a">>, <<"d","e","p","l","o","y","m","e","n","t","/","x">>, <<"-","-","a","l","l","-","n","a","m","e","s","p","a","c","e","s">>, NotAString}

\* ShellProcess.Run: nil, or the failure of the external process wrapped
\* with the "command execution error" prefix
processRun(failed) ==
    IF failed THEN Error("command execution error: %s", <<>>) ELSE nil

\* what process.Run returns
RunErrors == {processRun(failed) : failed \in BOOLEAN}

\* outcomes of the cluster-role check a start can meet
CheckOutcomes == {"role found", "role missing", "send failed", "timeout"}

\* values of the --access-level flag
AccessLevelFlags == {"readonly", "readwrite", "admin", "root"}

\* values of the --allow-namespaces flag at a start of the server
ServerAllowNamespaces == {<<>>, <<"a">>}

\* commands handed to the helm, cilium and hubble tools
MaxToolTokens == 2

ToolTokens ==
    {<<"l","i","s","t">>, <<"s","t","a","t","u","s">>, <<"i","n","s","t","a","l","l">>, <<"o","b","s","e","r","v","e">>, <<"-","n">>, <<"a">>, <<"b">>}

ToolCommands ==
    {Join(ts, <<" ">>) : ts \in UNION {[1..k -> ToolTokens] : k \in 0..MaxToolTokens}}
    \cup {NotAString}

\* raw kubectl commands handed to KubectlExecutor.Execute
MaxRawTokens == 2

\* raw commands with a blank before the binary name, and with a tab after it
SeparatorCommands ==
    {<<" ">> \o <<"k","u","b","e","c","t","l"," ","g","e","t">>, <<"k","u","b","e","c","t","l">> \o <<"\t">> \o <<"g","e","t">>}

RawCommands ==
    {Join(ts, <<" ">>) : ts \in TokenSeqs(MaxRawTokens)} \cup SeparatorCommands
        \cup {NotAString}

-----------------------------------------------------------------------------
\* The structured executor as a pure function: a configuration built as the
\* package's tests build it, and one Execute on drawn parameters.

InitExecutor ==
    /\ pc = "executor"
    /\ permissionMetadata = NoMetadata
    /\ mcpServer = <<>>
    /\ goroutines = <<>>
    /\ pr = <<>>
    /\ worker = <<>>
    /\ \E level \in AccessLevels, namespaces \in AllowNamespacesValues :
         cfg = [NewConfig EXCEPT
                  !.AccessLevel = level,
                  !.AllowNamespaces = namespaces,
                  !.SecurityConfig =
                      SetAllowedNamespaces([NewSecurityConfig EXCEPT !.AccessLevel = level],
                                           namespaces)]
    /\ \E toolName \in ToolNames, operation \in Operations,
          resource \in Resources, args \in ArgsValues :
         call = [NoCall EXCEPT !.entry = "input", !.toolName = toolName,
                               !.operation = operation, !.resource = resource,
                               !.args = args]

\* executor.Execute(params, cfg)
ApplyExecute ==
    /\ pc = "executor"
    /\ call.entry = "input"
    /\ \E runErr \in RunErrors :
         call' = KubectlToolExecutorExecute(call.toolName, call.operation, call.resource,
                                            call.args, cfg, runErr)
    /\ UNCHANGED <<pc, cfg, permissionMetadata, mcpServer, goroutines, pr, worker>>

NextExecutor == ApplyExecute

SpecExecutor == InitExecutor /\ [][NextExecutor]_vars

-----------------------------------------------------------------------------
\* Registration as a pure function: RegisterKubectlTools on a drawn level
\* string, as the package's tests call it, and one call of a registered tool.

\* the level strings drawn: the three level names and strings that are none
LevelStrings == {"readonly", "readwrite", "admin", "unknown", "", "Admin"}

InitTools ==
    /\ pc = "tools"
    /\ permissionMetadata = NoMetadata
    /\ mcpServer = <<>>
    /\ goroutines = <<>>
    /\ pr = <<>>
    /\ worker = <<>>
    /\ \E level \in LevelStrings :
         cfg = [NewConfig EXCEPT
                  !.AccessLevel = level,
                  !.SecurityConfig.AccessLevel =
                      IF isValidAccessLevel(level) THEN level ELSE AccessLevelReadOnly]
    /\ \E operation \in Operations, resource \in Resources, args \in ArgsValues :
         call = [NoCall EXCEPT !.entry = "input", !.operation = operation,
                               !.resource = resource, !.args = args]

\* tools := RegisterKubectlTools(accessLevel)
ApplyRegisterKubectlTools ==
    /\ pc = "tools"
    /\ mcpServer' = RegisterKubectlTools(cfg.AccessLevel)
    /\ pc' = "registered"
    /\ UNCHANGED <<cfg, permissionMetadata, call, goroutines, pr, worker>>

\* one of the registered tools is called with the drawn parameters
ApplyRegisteredTool ==
    /\ pc = "registered"
    /\ \E i \in DOMAIN mcpServer, runErr \in RunErrors :
         call' = KubectlToolExecutorExecute(mcpServer[i].Name, call.operation, call.resource,
                                            call.args, cfg, runErr)
    /\ pc' = "called"
    /\ UNCHANGED <<cfg, permissionMetadata, mcpServer, goroutines, pr, worker>>

NextTools ==
    \/ ApplyRegisterKubectlTools
    \/ ApplyRegisteredTool

SpecTools == InitTools /\ [][NextTools]_vars

-----------------------------------------------------------------------------
\* The category as a pure function: determineCommandCategory on a command
\* built from an operation token of the tables or the static lists.

\* every token of the operation tables and of the static lists
TableTokens ==
    UNION {Range(t) : t \in {KubectlReadOperations, KubectlReadWriteOperations,
                             KubectlAdminOperations, HelmReadOperations,
                             CiliumReadOperations, HubbleReadOperations,
                             GetReadOnlyKubectlCommands, GetReadWriteKubectlCommands,
                             GetAdminKubectlCommands}}

\* the second tokens drawn: none, the subcommands the category looks at, and
\* others
SecondTokens == {<<>>, <<"s","t","a","t","u","s">>, <<"h","i","s","t","o","r","y">>, <<"u","n","d","o">>, <<"c","a","n","-","i">>, <<"p","o","d","s">>}

InitCategory ==
    /\ pc = "category"
    /\ cfg = NewConfig
    /\ permissionMetadata = NoMetadata
    /\ mcpServer = <<>>
    /\ goroutines = <<>>
    /\ pr = <<>>
    /\ worker = <<>>
    /\ \E operation \in TableTokens, resource \in SecondTokens, args \in {<<>>, <<"-","n"," ","a">>} :
         call = [NoCall EXCEPT !.entry = "input", !.operation = operation,
                               !.resource = resource, !.args = args]

\* e.determineCommandCategory(e.buildCommand(operation, resource, args))
ApplyDetermineCommandCategory ==
    /\ pc = "category"
    /\ call.entry = "input"
    /\ call' = [call EXCEPT
                  !.entry = "determineCommandCategory",
                  !.command = buildCommand(call.operation, call.resource, call.args),
                  !.category = determineCommandCategory(
                                   buildCommand(call.operation, call.resource, call.args))]
    /\ UNCHANGED <<pc, cfg, permissionMetadata, mcpServer, goroutines, pr, worker>>

NextCategory == ApplyDetermineCommandCategory

SpecCategory == InitCategory /\ [][NextCategory]_vars

-----------------------------------------------------------------------------
\* The allow-list as a pure function: SetAllowedNamespaces on a drawn list,
\* then IsNamespaceAllowed on a drawn namespace name.

\* the longest namespace name drawn
MaxNameLen == 2

\* the namespace names drawn: the words over three letters
NamespaceNames ==
    UNION {[1..n -> {"a", "b", "x"}] : n \in 1..MaxNameLen}

\* the allow-lists drawn: literals, and patterns with ".", "*" and "|"
AllowLists ==
    {<<"a">>, <<"a","b">>, <<"a",".","*">>, <<"a","*">>, <<"x",".">>, <<"a","|","b">>, <<"a","b","|","x">>, <<"a",",","b","*">>,
     <<"a",","," ","x">>, <<"a","*","*">>, <<"a",".","|","b">>}

InitNamespaces ==
    /\ pc = "namespaces"
    /\ permissionMetadata = NoMetadata
    /\ mcpServer = <<>>
    /\ goroutines = <<>>
    /\ pr = <<>>
    /\ worker = <<>>
    /\ \E namespaces \in AllowLists : cfg = [NewConfig EXCEPT !.AllowNamespaces = namespaces]
    /\ \E namespace \in NamespaceNames :
         call = [NoCall EXCEPT !.entry = "input", !.args = namespace]

\* securityConfig.SetAllowedNamespaces(cfg.AllowNamespaces)
ApplySetAllowedNamespaces ==
    /\ pc = "namespaces"
    /\ cfg' = [cfg EXCEPT !.SecurityConfig = SetAllowedNamespaces(@, cfg.AllowNamespaces)]
    /\ pc' = "allow-list"
    /\ UNCHANGED <<permissionMetadata, mcpServer, call, goroutines, pr, worker>>

\* securityConfig.IsNamespaceAllowed(namespace)
ApplyIsNamespaceAllowed ==
    /\ pc = "allow-list"
    /\ call.entry = "input"
    /\ call' = [call EXCEPT
                  !.entry = "IsNamespaceAllowed",
                  !.result = IF IsNamespaceAllowed(cfg.SecurityConfig, call.args)
                             THEN "true" ELSE "false"]
    /\ UNCHANGED <<pc, cfg, permissionMetadata, mcpServer, goroutines, pr, worker>>

NextNamespaces ==
    \/ ApplySetAllowedNamespaces
    \/ ApplyIsNamespaceAllowed

SpecNamespaces == InitNamespaces /\ [][NextNamespaces]_vars

-----------------------------------------------------------------------------
\* pkg/kubectl: the PendingRequest, shared by one goroutine in Wait, the
\* goroutine Wait starts, and goroutines calling Complete.

\* NewPendingRequest; mu is the goroutine holding the mutex, "" when it is free
NewPendingRequest == [mu |-> "", done |-> FALSE, result |-> "", err |-> nil]

\* the goroutines calling Complete
Completers == {"Complete1", "Complete2"}

\* the results and errors handed to Complete
CompleteResults == {"stdout 1", "stdout 2"}
CompleteErrors == {nil, Error("command failed", <<>>)}

\* a goroutine that has not started, with its locals
NoGoroutine == [pc |-> "idle", result |-> "", err |-> nil, timer |-> "none", doneCh |-> "none"]

\* Complete writing the result of every call
CompleteOverwriting(p, result, err) ==
    [p EXCEPT !.done = TRUE, !.result = result, !.err = err]

\* the body of PendingRequest.Complete, run with the mutex held
Complete(p, result, err) ==
    IF p.done THEN p
    ELSE [p EXCEPT !.done = TRUE, !.result = result, !.err = err]

InitPending ==
    /\ pc = "pending"
    /\ cfg = NewConfig
    /\ permissionMetadata = NoMetadata
    /\ mcpServer = <<>>
    /\ call = NoCall
    /\ goroutines = [g \in Completers \cup {"Wait", "helper"} |-> NoGoroutine]
    /\ pr = NewPendingRequest
    /\ worker = <<>>

\* a goroutine calls pr.Complete(result, err) and goes for the mutex
CallComplete(g) ==
    /\ goroutines[g].pc = "idle"
    /\ \E result \in CompleteResults, err \in CompleteErrors :
         goroutines' = [goroutines EXCEPT ![g].pc = "Lock", ![g].result = result,
                                          ![g].err = err]
    /\ UNCHANGED <<pr, worker>>
    /\ UNCHANGED sequential

\* Complete with the mutex: the body, cond.Broadcast when it completed the
\* request, and the deferred Unlock
CompleteLocked(g) ==
    /\ goroutines[g].pc = "Lock"
    /\ pr.mu = ""
    /\ pr' = Complete(pr, goroutines[g].result, goroutines[g].err)
    /\ goroutines' = [goroutines EXCEPT
                        ![g].pc = "returned",
                        !["helper"].pc = IF ~pr.done /\ @ = "cond.Wait" THEN "Lock" ELSE @]
    /\ UNCHANGED worker
    /\ UNCHANGED sequential

\* a goroutine calls pr.Wait(timeout) and goes for the mutex
CallWait ==
    /\ goroutines["Wait"].pc = "idle"
    /\ goroutines' = [goroutines EXCEPT !["Wait"].pc = "Lock"]
    /\ UNCHANGED <<pr, worker>>
    /\ UNCHANGED sequential

\* Wait with the mutex: it returns at once when the request is done; else it
\* starts the timer and the goroutine that closes doneCh and goes to the
\* select, with the mutex still held (Unlock is deferred)
WaitLocked ==
    /\ goroutines["Wait"].pc = "Lock"
    /\ pr.mu = ""
    /\ IF pr.done
       THEN /\ goroutines' = [goroutines EXCEPT !["Wait"].pc = "returned",
                                                !["Wait"].result = pr.result,
                                                !["Wait"].err = pr.err]
            /\ pr' = pr
       ELSE /\ goroutines' = [goroutines EXCEPT !["Wait"].pc = "select",
                                                !["Wait"].timer = "running",
                                                !["Wait"].doneCh = "open",
                                                !["helper"].pc = "Lock"]
            /\ pr' = [pr EXCEPT !.mu = "Wait"]
    /\ UNCHANGED worker
    /\ UNCHANGED sequential

\* the timeout elapses
TimerFires ==
    /\ goroutines["Wait"].pc = "select"
    /\ goroutines["Wait"].timer = "running"
    /\ goroutines' = [goroutines EXCEPT !["Wait"].timer = "fired"]
    /\ UNCHANGED <<pr, worker>>
    /\ UNCHANGED sequential

\* the select of Wait takes a case that is ready, and Wait returns and
\* unlocks the mutex
WaitSelect ==
    /\ goroutines["Wait"].pc = "select"
    /\ \E case \in {"doneCh", "timer.C"} :
         /\ IF case = "doneCh" THEN goroutines["Wait"].doneCh = "closed"
                                ELSE goroutines["Wait"].timer = "fired"
         /\ goroutines' = [goroutines EXCEPT
                             !["Wait"].pc = "returned",
                             !["Wait"].result = IF case = "doneCh" THEN pr.result ELSE "",
                             !["Wait"].err = IF case = "doneCh" THEN pr.err
                                             ELSE Error("timeout waiting for response", <<>>)]
    /\ pr' = [pr EXCEPT !.mu = ""]
    /\ UNCHANGED worker
    /\ UNCHANGED sequential

\* the goroutine Wait started, with the mutex: it closes doneCh when the
\* request is done, else cond.Wait releases the mutex until a Broadcast
HelperLocked ==
    /\ goroutines["helper"].pc = "Lock"
    /\ pr.mu = ""
    /\ goroutines' = [goroutines EXCEPT
                        !["helper"].pc = IF pr.done THEN "exited" ELSE "cond.Wait",
                        !["Wait"].doneCh = IF pr.done THEN "closed" ELSE @]
    /\ UNCHANGED <<pr, worker>>
    /\ UNCHANGED sequential

NextPending ==
    \/ \E g \in Completers : CallComplete(g)
    \/ \E g \in Completers : CompleteLocked(g)
    \/ CallWait
    \/ WaitLocked
    \/ TimerFires
    \/ WaitSelect
    \/ HelperLocked

SpecPending == InitPending /\ [][NextPending]_vars

\* the goroutines that are in a call take their steps; the calls themselves
\* and the timer are left to the environment
SpecPendingFair ==
    /\ SpecPending
    /\ \A g \in Completers : WF_vars(CompleteLocked(g))
    /\ WF_vars(WaitLocked)
    /\ WF_vars(WaitSelect)
    /\ WF_vars(HelperLocked)

-----------------------------------------------------------------------------
\* pkg/kubectl: remote calls on one Worker. Each executeKubectlCommandOnHost
\* sends its request and then runs SubscribeUpdates, which creates a consumer
\* on the shared subscription of the response topic, keeps it in w.consumer,
\* and receives until the message with its id arrives or its time is up.

\* the goroutines running executeKubectlCommandOnHost
HostCalls == {"call1", "call2"}

\* the values int(time.Now().UnixMilli()) takes at the calls
Ids == {1, 2}

\* a call that has not started, with its locals
NoHostCall == [pc |-> "idle", id |-> 0, result |-> "", err |-> nil, deferred |-> ""]

\* the response the remote agent publishes for the request of a call
Response(c, id) == [Id |-> id, for |-> c, stdout |-> "stdout of " \o c]

InitWorker ==
    /\ pc = "worker"
    /\ cfg = NewConfig
    /\ permissionMetadata = NoMetadata
    /\ mcpServer = <<>>
    /\ call = NoCall
    /\ goroutines = [c \in HostCalls |-> NoHostCall]
    /\ pr = <<>>
    /\ worker = [consumer |-> "",
                 queues |-> [c \in HostCalls |-> <<>>],
                 open |-> {},
                 backlog |-> {},
                 published |-> {},
                 acked |-> {}]

\* executeKubectlCommandOnHost: the id is taken from the clock and the
\* request is sent
SendRequest(c) ==
    /\ goroutines[c].pc = "idle"
    /\ \E id \in Ids : goroutines' = [goroutines EXCEPT ![c].pc = "sent", ![c].id = id]
    /\ UNCHANGED <<pr, worker>>
    /\ UNCHANGED sequential

\* the remote agent publishes the response to a request that was sent
Publish(c) ==
    /\ goroutines[c].pc # "idle"
    /\ c \notin worker.published
    /\ worker' = [worker EXCEPT !.published = @ \cup {c},
                                !.backlog = @ \cup {Response(c, goroutines[c].id)}]
    /\ UNCHANGED <<goroutines, pr>>
    /\ UNCHANGED sequential

\* SubscribeUpdates: w.consumer, err = w.pulsarClient.Consumer(...)
Consumer(c) ==
    /\ goroutines[c].pc = "sent"
    /\ goroutines' = [goroutines EXCEPT ![c].pc = "defer"]
    /\ worker' = [worker EXCEPT !.consumer = c, !.open = @ \cup {c}]
    /\ UNCHANGED pr
    /\ UNCHANGED sequential

\* SubscribeUpdates: defer w.consumer.Close(), which reads the field again
DeferClose(c) ==
    /\ goroutines[c].pc = "defer"
    /\ goroutines' = [goroutines EXCEPT ![c].pc = "Receive", ![c].deferred = worker.consumer]
    /\ UNCHANGED <<pr, worker>>
    /\ UNCHANGED sequential

\* the shared subscription hands a message to one of its open consumers
Dispatch ==
    /\ \E msg \in worker.backlog, consumer \in worker.open :
         worker' = [worker EXCEPT !.backlog = @ \ {msg},
                                  !.queues[consumer] = Append(@, msg)]
    /\ UNCHANGED <<goroutines, pr>>
    /\ UNCHANGED sequential

\* the consumer is closed: what it holds unacknowledged goes back to the
\* subscription
Close(w, consumer) ==
    IF consumer \in w.open
    THEN [w EXCEPT !.open = @ \ {consumer},
                   !.queues[consumer] = <<>>,
                   !.backlog = @ \cup Range(w.queues[consumer])]
    ELSE w

\* one turn of the loop of SubscribeUpdates: w.consumer.Receive returns a
\* message, which is acknowledged whether its Id is the id of the call or
\* not; with its own Id the call returns the stdout
Receive(c) ==
    /\ goroutines[c].pc = "Receive"
    /\ worker.consumer \in worker.open
    /\ worker.queues[worker.consumer] # <<>>
    /\ LET msg == Head(worker.queues[worker.consumer])
           received == [worker EXCEPT !.queues[worker.consumer] = Tail(@),
                                      !.acked = @ \cup {[msg |-> msg, by |-> c]}]
       IN  IF msg.Id = goroutines[c].id
           THEN /\ goroutines' = [goroutines EXCEPT ![c].pc = "returned",
                                                    ![c].result = msg.stdout]
                /\ worker' = Close(received, goroutines[c].deferred)
           ELSE /\ goroutines' = goroutines
                /\ worker' = received
    /\ UNCHANGED pr
    /\ UNCHANGED sequential

\* the time of the call is up: Receive returns the deadline error
DeadlineExceeded(c) ==
    /\ goroutines[c].pc = "Receive"
    /\ goroutines' = [goroutines EXCEPT ![c].pc = "returned",
                                        ![c].err = Error("timeout reached after %ds", <<>>)]
    /\ worker' = Close(worker, goroutines[c].deferred)
    /\ UNCHANGED pr
    /\ UNCHANGED sequential

NextWorker ==
    \/ \E c \in HostCalls : SendRequest(c)
    \/ \E c \in HostCalls : Publish(c)
    \/ \E c \in HostCalls : Consumer(c)
    \/ \E c \in HostCalls : DeferClose(c)
    \/ Dispatch
    \/ \E c \in HostCalls : Receive(c)
    \/ \E c \in HostCalls : DeadlineExceeded(c)

SpecWorker == InitWorker /\ [][NextWorker]_vars

-----------------------------------------------------------------------------
\* pkg/kubectl: the retries of startSubscriberWithRetry. A time.Duration is
\* an int64 of nanoseconds, kept here as its 64 bits in two's complement,
\* bit 0 the lowest.

\* the width of int and of time.Duration
DurationBits == 64

\* the highest attempt drawn
MaxAttempt == 66

\* k zero bits
Zeros(k) == [i \in 1..k |-> 0] \o <<>>

\* the word of a number below 2^31: its bits, bit 0 first
WordOf(n) ==
    [i \in 1..DurationBits |-> IF i <= 31 THEN (n \div 2^(i - 1)) % 2 ELSE 0] \o <<>>

\* x << k; a shift by the width or more leaves 0
ShiftLeft(x, k) ==
    IF k >= DurationBits THEN Zeros(DurationBits)
    ELSE Zeros(k) \o SubSeq(x, 1, DurationBits - k)

\* the carry into the i-th bit of x + y: some lower bit generates a carry
\* and every bit between passes it on
Carry(x, y, i) ==
    IF \E j \in 1..(i - 1) :
           /\ x[j] + y[j] = 2
           /\ \A k \in (j + 1)..(i - 1) : x[k] + y[k] >= 1
    THEN 1 ELSE 0

\* x + y; the carry out of the highest bit is lost
Add(x, y) == [i \in 1..DurationBits |-> (x[i] + y[i] + Carry(x, y, i)) % 2] \o <<>>

RECURSIVE MulFrom(_, _, _)
\* x times the bits from the j-th on of y
MulFrom(x, y, j) ==
    IF j > DurationBits THEN Zeros(DurationBits)
    ELSE IF y[j] = 1 THEN Add(ShiftLeft(x, j - 1), MulFrom(x, y, j + 1))
    ELSE MulFrom(x, y, j + 1)

\* x * y
Mul(x, y) == MulFrom(x, y, 1)

\* x > y, both signed: the highest bit is the sign
Greater(x, y) ==
    LET differ == {i \in 1..DurationBits : x[i] # y[i]}
    IN  /\ differ # {}
        /\ LET high == CHOOSE i \in differ : \A j \in differ : j <= i
           IN  IF high = DurationBits THEN x[high] = 0 ELSE x[high] = 1

\* time.Second, in nanoseconds
Second == WordOf(1000000000)

\* the backoff of startSubscriberWithRetry for an attempt
Backoff(attempt) ==
    LET backoff == Mul(Second, ShiftLeft(WordOf(1), attempt))
    IN  IF Greater(backoff, Mul(Second, WordOf(30))) THEN Mul(Second, WordOf(30))
        ELSE backoff

InitSubscriber ==
    /\ pc = "subscriber"
    /\ cfg = NewConfig
    /\ permissionMetadata = NoMetadata
    /\ mcpServer = <<>>
    /\ call = NoCall
    /\ goroutines = [subscriber |-> [pc |-> "Consumer", attempt |-> 0, slept |-> FALSE,
                                     backoff |-> WordOf(0)]]
    /\ pr = <<>>
    /\ worker = [consumer |-> ""]

\* creating the consumer fails: the backoff is slept and the next attempt
\* starts
ConsumerFails ==
    /\ goroutines.subscriber.pc = "Consumer"
    /\ goroutines.subscriber.attempt < MaxAttempt
    /\ goroutines' = [goroutines EXCEPT
                        !.subscriber.backoff = Backoff(goroutines.subscriber.attempt),
                        !.subscriber.slept = TRUE,
                        !.subscriber.attempt = @ + 1]
    /\ UNCHANGED <<pr, worker>>
    /\ UNCHANGED sequential

\* the consumer is created and the receive loop starts
ConsumerCreated ==
    /\ goroutines.subscriber.pc = "Consumer"
    /\ goroutines' = [goroutines EXCEPT !.subscriber.pc = "Receive"]
    /\ worker' = [worker EXCEPT !.consumer = "subscriber"]
    /\ UNCHANGED pr
    /\ UNCHANGED sequential

\* consumer.Receive fails: the consumer is closed and the subscriber starts
\* afresh, startSubscriberWithRetry(topic, 0)
ReceiveError ==
    /\ goroutines.subscriber.pc = "Receive"
    /\ goroutines' = [goroutines EXCEPT !.subscriber.pc = "Consumer",
                                        !.subscriber.attempt = 0,
                                        !.subscriber.slept = FALSE,
                                        !.subscriber.backoff = WordOf(0)]
    /\ worker' = [worker EXCEPT !.consumer = ""]
    /\ UNCHANGED pr
    /\ UNCHANGED sequential

NextSubscriber ==
    \/ ConsumerFails
    \/ ConsumerCreated
    \/ ReceiveError

SpecSubscriber == InitSubscriber /\ [][NextSubscriber]_vars

-----------------------------------------------------------------------------
\* The server: flags are parsed, the service is initialized, and then tool
\* calls are served one after another.

\* Worker.CheckClusterRolePermission, by what happened to the request
CheckClusterRolePermission(outcome) ==
    CASE outcome = "send failed" ->
            [Success |-> FALSE, HasAdminRole |-> FALSE, ErrorType |-> "connection",
             ErrorMessage |-> "failed to send cluster role check: %s",
             ClusterRoleFound |-> FALSE]
      [] outcome = "role found" ->
            [Success |-> TRUE, HasAdminRole |-> TRUE, ErrorType |-> "",
             ErrorMessage |-> "", ClusterRoleFound |-> TRUE]
      [] outcome = "role missing" ->
            [Success |-> TRUE, HasAdminRole |-> FALSE, ErrorType |-> "",
             ErrorMessage |-> "", ClusterRoleFound |-> FALSE]
      [] OTHER ->
            [Success |-> FALSE, HasAdminRole |-> FALSE, ErrorType |-> "timeout",
             ErrorMessage |-> "timeout checking cluster roles after %d seconds",
             ClusterRoleFound |-> FALSE]

\* an Initialize that grants admin whenever the role is found
InitializeAccessRaising(c, outcome) ==
    LET meta == [CurrentAccessLevel |-> c.AccessLevel,
                 RequestedAccessLevel |-> c.AccessLevel,
                 WasDowngraded |-> FALSE, ClusterRoleFound |-> outcome = "role found",
                 ValidationEnabled |-> c.ValidateClusterRole, ValidationError |-> ""]
    IN  IF outcome = "role found"
        THEN [cfg |-> [c EXCEPT !.AccessLevel = "admin",
                                !.SecurityConfig.AccessLevel = AccessLevelAdmin],
              permissionMetadata |-> [meta EXCEPT !.CurrentAccessLevel = "admin"]]
        ELSE [cfg |-> [c EXCEPT !.AccessLevel = "readonly",
                                !.SecurityConfig.AccessLevel = AccessLevelReadOnly],
              permissionMetadata |-> [meta EXCEPT !.CurrentAccessLevel = "readonly"]]

\* an Initialize that downgrades the string of the configuration only
InitializeAccessOneCopy(c, outcome) ==
    LET meta == [CurrentAccessLevel |-> c.AccessLevel,
                 RequestedAccessLevel |-> c.AccessLevel,
                 WasDowngraded |-> FALSE, ClusterRoleFound |-> outcome = "role found",
                 ValidationEnabled |-> c.ValidateClusterRole, ValidationError |-> ""]
    IN  IF ~(c.ValidateClusterRole /\ c.AccessLevel \in {"admin", "readwrite"})
           \/ outcome = "role found"
        THEN [cfg |-> c, permissionMetadata |-> meta]
        ELSE [cfg |-> [c EXCEPT !.AccessLevel = "readonly"],
              permissionMetadata |-> [meta EXCEPT !.CurrentAccessLevel = "readonly",
                                                  !.WasDowngraded = TRUE]]

\* the part of Service.Initialize that settles the access level: the
\* configuration and the permission metadata it leaves
InitializeAccess(c, outcome) ==
    LET meta == [CurrentAccessLevel |-> c.AccessLevel,
                 RequestedAccessLevel |-> c.AccessLevel,
                 WasDowngraded |-> FALSE, ClusterRoleFound |-> FALSE,
                 ValidationEnabled |-> c.ValidateClusterRole, ValidationError |-> ""]
        result == CheckClusterRolePermission(outcome)
        found == [meta EXCEPT !.ClusterRoleFound = result.ClusterRoleFound]
        downgraded == [c EXCEPT !.AccessLevel = "readonly",
                                !.SecurityConfig.AccessLevel = AccessLevelReadOnly]
    IN  IF ~(c.ValidateClusterRole /\ c.AccessLevel \in {"admin", "readwrite"})
        THEN [cfg |-> c, permissionMetadata |-> meta]
        ELSE IF ~result.Success /\ result.ErrorType = "connection"
        THEN [cfg |-> c,
              permissionMetadata |-> [found EXCEPT !.ValidationError = "connection_issue: %s",
                                                   !.CurrentAccessLevel = "readonly",
                                                   !.WasDowngraded = TRUE]]
        ELSE IF ~result.Success /\ result.ErrorType = "timeout"
        THEN [cfg |-> c,
              permissionMetadata |-> [found EXCEPT !.ValidationError = "timeout_issue: %s",
                                                   !.CurrentAccessLevel = "readonly",
                                                   !.WasDowngraded = TRUE]]
        ELSE IF ~result.Success
        THEN [cfg |-> downgraded,
              permissionMetadata |-> [found EXCEPT !.CurrentAccessLevel = "readonly",
                                                   !.WasDowngraded = TRUE,
                                                   !.ValidationError = result.ErrorMessage]]
        ELSE IF ~result.HasAdminRole
        THEN [cfg |-> downgraded,
              permissionMetadata |-> [found EXCEPT !.CurrentAccessLevel = "readonly",
                                                   !.WasDowngraded = TRUE]]
        ELSE [cfg |-> c, permissionMetadata |-> found]

\* a handler that hands the executor's error to the transport
CreateToolHandlerPropagating(argumentsIsMap, executed) ==
    IF ~argumentsIsMap
    THEN [NoCall EXCEPT !.entry = executed.entry, !.step = "arguments", !.result = "error",
                        !.resultText = Error("arguments must be a map[string]interface{}, got %T", <<>>)]
    ELSE IF executed.err # nil
    THEN [executed EXCEPT !.transportErr = executed.err]
    ELSE [executed EXCEPT !.result = "text"]

\* the handler CreateToolHandler builds around an executor: executed is what
\* executor.Execute(args, cfg) returns; the handler's own result is an error
\* result or a text result, and its error (transportErr) is nil
CreateToolHandler(argumentsIsMap, executed) ==
    IF ~argumentsIsMap
    THEN [NoCall EXCEPT !.entry = executed.entry, !.step = "arguments", !.result = "error",
                        !.resultText = Error("arguments must be a map[string]interface{}, got %T", <<>>)]
    ELSE IF executed.err # nil
    THEN [executed EXCEPT !.result = "error", !.resultText = executed.err]
    ELSE [executed EXCEPT !.result = "text"]

\* the handler CreateToolHandlerWithName builds: the tool name is injected
\* into the arguments as "_tool_name" before executor.Execute
CreateToolHandlerWithName(argumentsIsMap, toolName, operation, resource, args, c, runErr) ==
    CreateToolHandler(argumentsIsMap,
        KubectlToolExecutorExecute(toolName, operation, resource, args, c, runErr))

Init ==
    /\ pc = "new"
    /\ cfg = NewConfig
    /\ permissionMetadata = NoMetadata
    /\ mcpServer = <<>>
    /\ goroutines = <<>>
    /\ pr = <<>>
    /\ worker = <<>>
    /\ call = NoCall

\* cfg.ParseFlags() with the flags drawn; on an error the process exits
ParseFlags ==
    /\ pc = "new"
    /\ \E accessLevel \in AccessLevelFlags, allowNamespaces \in ServerAllowNamespaces,
          validateClusterRole \in BOOLEAN :
         LET flags == [cfg EXCEPT !.AccessLevel = accessLevel,
                                  !.AllowNamespaces = allowNamespaces,
                                  !.ValidateClusterRole = validateClusterRole]
             level == [flags EXCEPT !.SecurityConfig.AccessLevel =
                          CASE accessLevel = "readonly" -> AccessLevelReadOnly
                            [] accessLevel = "readwrite" -> AccessLevelReadWrite
                            [] OTHER -> AccessLevelAdmin]
         IN  IF accessLevel \notin {"readonly", "readwrite", "admin"}
             THEN cfg' = flags /\ pc' = "failed"
             ELSE /\ cfg' = IF allowNamespaces # <<>>
                            THEN [level EXCEPT !.SecurityConfig =
                                     SetAllowedNamespaces(level.SecurityConfig, allowNamespaces)]
                            ELSE level
                  /\ pc' = "parsed"
    /\ UNCHANGED <<permissionMetadata, mcpServer, call, goroutines, pr, worker>>

\* Service.Initialize
Initialize ==
    /\ pc = "parsed"
    /\ \E outcome \in CheckOutcomes :
         /\ cfg' = InitializeAccess(cfg, outcome).cfg
         /\ permissionMetadata' = InitializeAccess(cfg, outcome).permissionMetadata
    /\ mcpServer' = RegisterKubectlTools(cfg'.AccessLevel)
    /\ pc' = "serving"
    /\ UNCHANGED <<call, goroutines, pr, worker>>

\* a call of a structured kubectl tool
KubectlToolExecute ==
    /\ pc = "serving"
    /\ call = NoCall
    /\ \E toolName \in ToolNamesOf(mcpServer), operation \in Operations,
          resource \in Resources, args \in ArgsValues, runErr \in RunErrors,
          argumentsIsMap \in BOOLEAN :
         call' = CreateToolHandlerWithName(argumentsIsMap, toolName, operation, resource,
                                           args, cfg, runErr)
    /\ UNCHANGED <<pc, cfg, permissionMetadata, mcpServer, goroutines, pr, worker>>

\* a call of the raw kubectl tool
KubectlExecute ==
    /\ pc = "serving"
    /\ call = NoCall
    /\ \E command \in RawCommands, runErr \in RunErrors, argumentsIsMap \in BOOLEAN :
         call' = CreateToolHandler(argumentsIsMap,
                     ExecutorExecute("KubectlExecutor.Execute", command, CommandTypeKubectl,
                                     cfg, runErr))
    /\ UNCHANGED <<pc, cfg, permissionMetadata, mcpServer, goroutines, pr, worker>>

\* a call of the tool of one kubectl command
KubectlExecuteSpecificCommand ==
    /\ pc = "serving"
    /\ call = NoCall
    /\ \E cmd \in Range(GetReadOnlyKubectlCommands) \cup Range(GetReadWriteKubectlCommands)
                    \cup Range(GetAdminKubectlCommands),
          args \in ArgsValues, runErr \in RunErrors, argumentsIsMap \in BOOLEAN :
         call' = CreateToolHandler(argumentsIsMap, ExecuteSpecificCommand(cmd, args, cfg, runErr))
    /\ UNCHANGED <<pc, cfg, permissionMetadata, mcpServer, goroutines, pr, worker>>

HelmExecute ==
    /\ pc = "serving"
    /\ call = NoCall
    /\ \E command \in ToolCommands, runErr \in RunErrors, argumentsIsMap \in BOOLEAN :
         call' = CreateToolHandler(argumentsIsMap,
                     ExecutorExecute("HelmExecutor.Execute", command, CommandTypeHelm,
                                     cfg, runErr))
    /\ UNCHANGED <<pc, cfg, permissionMetadata, mcpServer, goroutines, pr, worker>>

CiliumExecute ==
    /\ pc = "serving"
    /\ call = NoCall
    /\ \E command \in ToolCommands, runErr \in RunErrors, argumentsIsMap \in BOOLEAN :
         call' = CreateToolHandler(argumentsIsMap,
                     ExecutorExecute("CiliumExecutor.Execute", command, CommandTypeCilium,
                                     cfg, runErr))
    /\ UNCHANGED <<pc, cfg, permissionMetadata, mcpServer, goroutines, pr, worker>>

HubbleExecute ==
    /\ pc = "serving"
    /\ call = NoCall
    /\ \E command \in ToolCommands, runErr \in RunErrors, argumentsIsMap \in BOOLEAN :
         call' = CreateToolHandler(argumentsIsMap,
                     ExecutorExecute("HubbleExecutor.Execute", command, CommandTypeHubble,
                                     cfg, runErr))
    /\ UNCHANGED <<pc, cfg, permissionMetadata, mcpServer, goroutines, pr, worker>>

\* the handler createCheckPermissionsHandler builds: the permission metadata
\* as they are at the call, in a text result
createCheckPermissionsHandler(metadata) ==
    [NoCall EXCEPT !.entry = "kubectl_check_permissions", !.result = "text",
                   !.metadata = metadata]

\* a call of the permission tool, which the registry offers at every level
CheckPermissions ==
    /\ pc = "serving"
    /\ call = NoCall
    /\ call' = createCheckPermissionsHandler(permissionMetadata)
    /\ UNCHANGED <<pc, cfg, permissionMetadata, mcpServer, goroutines, pr, worker>>

\* the handler has handed the result to the protocol layer
Respond ==
    /\ pc = "serving"
    /\ call # NoCall
    /\ call' = NoCall
    /\ UNCHANGED <<pc, cfg, permissionMetadata, mcpServer, goroutines, pr, worker>>

Next ==
    \/ ParseFlags
    \/ Initialize
    \/ KubectlToolExecute
    \/ KubectlExecute
    \/ KubectlExecuteSpecificCommand
    \/ HelmExecute
    \/ CiliumExecute
    \/ HubbleExecute
    \/ CheckPermissions
    \/ Respond

Spec == Init /\ [][Next]_vars


-----------------------------------------------------------------------------
\* Vocabulary of the properties below.

\* the Validator returned for the drawn command
Validated == pc = "validator" /\ call.entry = "ValidateCommand"

Allowed == call.err = nil

\* the allow-list holds no literal and no pattern
Unrestricted ==
    /\ cfg.SecurityConfig.allowedNamespaces = <<>>
    /\ cfg.SecurityConfig.allowedNamespacesRe = <<>>

LevelRank(level) ==
    CASE level = AccessLevelReadOnly -> 1
      [] level = AccessLevelReadWrite -> 2
      [] level = AccessLevelAdmin -> 3
      [] OTHER -> 0

\* the tier the kubectl tables give an operation token: 1 read-only,
\* 2 read-write, 3 admin, 4 when it is in none of them
TierRank(operation) ==
    IF operation \in Range(KubectlReadOperations) THEN 1
    ELSE IF operation \in Range(KubectlReadWriteOperations) THEN 2
    ELSE IF operation \in Range(KubectlAdminOperations) THEN 3
    ELSE 4

OperationToken == extractOperationFromCommand(call.command, call.commandType)

NamespaceEq == <<"-","-","n","a","m","e","s","p","a","c","e","=">>

\* the namespace flags among the tokens: <<index of the flag token, index of
\* the token holding the value, the namespace named>>
NamespaceFlags(ts) ==
    {<<i, i + 1, ts[i + 1]>> : i \in {j \in 1..(Len(ts) - 1) :
          ts[j] \in {<<"-","n">>, <<"-","-","n","a","m","e","s","p","a","c","e">>}}}
    \cup
    {<<i, i, SubSeq(ts[i], Len(NamespaceEq) + 1, Len(ts[i]))>> : i \in {j \in 1..Len(ts) :
          HasPrefix(ts[j], NamespaceEq) /\ Len(ts[j]) > Len(NamespaceEq)}}

\* an all-namespaces marker
IsAllMarker(tok) ==
    tok \in {<<"-","A">>, <<"-","-","a","l","l","-","n","a","m","e","s","p","a","c","e","s">>}

\* a resource/name shorthand: a slash with a character on both sides
IsShorthand(tok) == \E k \in 2..(Len(tok) - 1) : tok[k] = "/"

CallTokens == Fields(call.command)

\* the command's only namespace indicator is one flag naming x
OnlyFlag(x) ==
    \E f \in NamespaceFlags(CallTokens) :
        /\ NamespaceFlags(CallTokens) = {f}
        /\ f[3] = x
        /\ \A i \in DOMAIN CallTokens :
               i \notin {f[1], f[2]} =>
                   ~IsAllMarker(CallTokens[i]) /\ ~IsShorthand(CallTokens[i])

\* the literal names of the allow-list
Literals == Range(cfg.SecurityConfig.allowedNamespaces)

NamespaceValues == {f[3] : f \in NamespaceFlags(CallTokens)}

-----------------------------------------------------------------------------
\* C2: with an unrestricted allow-list, ValidateCommand allows a kubectl
\* command exactly when its operation token is in one of the three tier
\* tables and that tier is at most the configured access level; a token in
\* no table (the empty token included) is denied at every level.
C2_TierCeiling ==
    (Validated /\ Unrestricted) =>
        (Allowed <=> TierRank(OperationToken) <= LevelRank(cfg.SecurityConfig.AccessLevel))

\* an admin operation was denied at ReadWrite, with no namespace named
C2_Witness ==
    /\ Validated /\ Unrestricted
    /\ cfg.SecurityConfig.AccessLevel = AccessLevelReadWrite
    /\ OperationToken = <<"d","r","a","i","n">>
    /\ extractNamespaceFromCommand(call.command) = <<>>
    /\ ~Allowed

\* C3: for a non-empty allow-list of literal names and a command whose
\* operation passes the tier check and whose only namespace indicator is one
\* flag -n x (or --namespace=x), the command is allowed exactly when x is one
\* of the literals, compared exactly; with an empty allow-list every such
\* command is allowed, and so is one with an all-namespaces marker.
C3_NamespaceWhitelist ==
    (Validated /\ validateAccessLevel(cfg.SecurityConfig, call.command, call.commandType) = nil) =>
        /\ \A x \in NamespaceValues :
               (OnlyFlag(x) /\ ~Unrestricted) => (Allowed <=> x \in Literals)
        /\ Unrestricted => Allowed

\* "-n A" was denied under the allow-list {a}: the match is case-sensitive
C3_Witness ==
    /\ Validated
    /\ Literals = {<<"a">>}
    /\ OperationToken = <<"g","e","t">>
    /\ OnlyFlag(<<"A">>)
    /\ ~Allowed

\* C4 (as stated): with a non-empty allow-list every command that carries an
\* all-namespaces marker is denied, whatever else it contains.
C4_AllNamespacesAlwaysDenied ==
    (Validated /\ ~Unrestricted /\ \E i \in DOMAIN CallTokens : IsAllMarker(CallTokens[i]))
        => ~Allowed

\* C5: a command without a namespace flag that contains a resource/name
\* shorthand is checked as namespace "default": with a non-empty allow-list
\* it is allowed exactly when "default" is admitted; a namespace flag in the
\* same command decides instead of the shorthand.
C5_ShorthandDefault ==
    (/\ Validated /\ ~Unrestricted
     /\ validateAccessLevel(cfg.SecurityConfig, call.command, call.commandType) = nil
     /\ \E i \in DOMAIN CallTokens : IsShorthand(CallTokens[i])) =>
        /\ NamespaceFlags(CallTokens) = {} =>
               (Allowed <=> <<"d","e","f","a","u","l","t">> \in Literals)
        /\ \A f \in NamespaceFlags(CallTokens) :
               (/\ NamespaceFlags(CallTokens) = {f}
                /\ ~IsShorthand(CallTokens[f[2]])) => (Allowed <=> f[3] \in Literals)

\* a shorthand command was denied because "default" is not in the allow-list
C5_Witness ==
    /\ Validated
    /\ Literals = {<<"a">>}
    /\ call.command = <<"g","e","t"," ","p","o","d","/","x">>
    /\ ~Allowed

-----------------------------------------------------------------------------
\* Vocabulary of the properties of the executors.

\* the structured executor returned for the drawn parameters
Executed == pc = "executor" /\ call.entry = "KubectlToolExecutor.Execute"

\* the three parameters of the structured call are strings
StringParams ==
    NotAString \notin {call.operation, call.resource, call.args}

\* the command the structured call builds
BuiltCommand ==
    buildCommand(MapOperationToCommand(call.toolName, call.operation, call.resource),
                 call.resource, call.args)

\* the command line a kubectl entry point validated, as the runner gets it
KubectlPrefixed(command) ==
    IF HasPrefix(command, <<"k","u","b","e","c","t","l"," ">>) THEN command ELSE <<"k","u","b","e","c","t","l"," ">> \o command

-----------------------------------------------------------------------------
\* C1: at every entry point (the structured and the raw kubectl Execute,
\* ExecuteSpecificCommand, and the helm, cilium and hubble Execute) the runner
\* is invoked only for a command that both the tier check and the namespace
\* check of ValidateCommand allowed, and it is handed that command; a call
\* that stopped at a denial never reached the runner.
C1_RunOnlyAfterValidation ==
    /\ call.ran =>
          /\ validateAccessLevel(cfg.SecurityConfig, call.command, call.commandType) = nil
          /\ validateNamespaceScope(cfg.SecurityConfig, call.command) = nil
          /\ call.ranCmd = IF call.commandType = CommandTypeKubectl
                           THEN KubectlPrefixed(call.command)
                           ELSE call.command
    /\ call.step \in {"parameters", "validateCombination", "checkAccessLevel",
                      "ValidateCommand"} => ~call.ran /\ call.err # nil

\* a raw kubectl command naming an allowed namespace ran under a restricted
\* allow-list
C1_Witness ==
    /\ pc = "serving"
    /\ call.entry = "KubectlExecutor.Execute"
    /\ call.ran
    /\ ~Unrestricted
    /\ extractNamespaceFromCommand(call.command) = <<"a">>

\* C6 (as stated): for every combination validateCombination accepts, every
\* args string and every level, checkAccessLevel allows the built command
\* exactly when validateAccessLevel allows it.
C6_EnforcementPointsAgree ==
    (Executed /\ StringParams
     /\ validateCombination(call.toolName, call.operation, call.resource) = nil) =>
        (checkAccessLevel(BuiltCommand, cfg) = nil
            <=> validateAccessLevel(cfg.SecurityConfig, BuiltCommand, CommandTypeKubectl) = nil)

\* C7 (as stated): kubectl_workloads rollout/status builds "rollout status
\* ...", is categorised read-only, and with unrestricted namespaces reaches
\* the runner at every access level.
C7_RolloutStatusRuns ==
    (Executed /\ StringParams /\ Unrestricted
     /\ call.toolName = "kubectl_workloads"
     /\ call.operation = <<"r","o","l","l","o","u","t">> /\ call.resource = <<"s","t","a","t","u","s">>) =>
        /\ HasPrefix(BuiltCommand, <<"r","o","l","l","o","u","t"," ","s","t","a","t","u","s">>)
        /\ determineCommandCategory(BuiltCommand) = <<"r","e","a","d","-","o","n","l","y">>
        /\ call.ran

C9_FailureLeavesReadOnly ==
    (/\ pc = "serving"
     /\ permissionMetadata.ValidationEnabled
     /\ permissionMetadata.RequestedAccessLevel \in {"readwrite", "admin"}
     /\ ~permissionMetadata.ClusterRoleFound) =>
        /\ cfg.AccessLevel = "readonly"
        /\ cfg.SecurityConfig.AccessLevel = AccessLevelReadOnly

\* C10: once the flags are parsed no step raises cfg.AccessLevel or
\* SecurityConfig.AccessLevel.
C10_LevelNeverIncreases ==
    [][pc # "new" =>
          /\ LevelRank(cfg'.AccessLevel) <= LevelRank(cfg.AccessLevel)
          /\ LevelRank(cfg'.SecurityConfig.AccessLevel)
                <= LevelRank(cfg.SecurityConfig.AccessLevel)]_vars

\* a server asked for admin serves a call at ReadOnly after the downgrade
C10_Witness ==
    /\ pc = "serving"
    /\ permissionMetadata.RequestedAccessLevel = "admin"
    /\ cfg.AccessLevel = "readonly"
    /\ cfg.SecurityConfig.AccessLevel = AccessLevelReadOnly
    /\ call.step = "ValidateCommand"

-----------------------------------------------------------------------------
\* Vocabulary of the properties of registration.

\* RegisterKubectlTools has returned
Registered == pc \in {"registered", "called"}

ReadOnlyToolNames ==
    {"kubectl_resources", "kubectl_diagnostics", "kubectl_cluster", "kubectl_config"}

ReadWriteToolNames == ReadOnlyToolNames \cup {"kubectl_workloads", "kubectl_metadata"}

AdminToolNames == ReadWriteToolNames \cup {"kubectl_nodes"}

\* the tool names a level string is to see
ExpectedToolNames(level) ==
    CASE level = "admin" -> AdminToolNames
      [] level = "readwrite" -> ReadWriteToolNames
      [] OTHER -> ReadOnlyToolNames

\* the operations a registered tool advertises or accepts
OfferedOperations(tool) ==
    Range(tool.operations)
    \cup {operation \in Operations \ {NotAString} :
            \E resource \in Resources \ {NotAString} :
                validateCombination(tool.Name, operation, resource) = nil}

-----------------------------------------------------------------------------
C12_ReadOnlyToolsOfferReadOnly ==
    (Registered /\ cfg.AccessLevel = "readonly") =>
        \A i \in DOMAIN mcpServer :
            \A operation \in OfferedOperations(mcpServer[i]) : TierRank(operation) = 1

-----------------------------------------------------------------------------
\* Vocabulary of the properties of the handlers.

\* a handler of the server has returned for the call
Handled == pc = "serving" /\ call # NoCall

-----------------------------------------------------------------------------
\* C13: whatever the executor returns, the handler's own error is nil: an
\* executor error is delivered as an error result carrying that error, a
\* success as a text result.
C13_NilTransportError ==
    Handled =>
        /\ call.transportErr = nil
        /\ call.result \in {"error", "text"}
        /\ call.err # nil => call.result = "error" /\ call.resultText = call.err
        /\ (call.err = nil /\ call.step = "run") => call.result = "text"

\* a denial of the Validator came back as an error result
C13_Witness ==
    /\ Handled
    /\ call.step = "ValidateCommand"
    /\ call.result = "error"
    /\ call.resultText = Error("Error: Cannot execute write or admin operations in read-only mode", <<>>)
    /\ call.transportErr = nil

C15_MissingParameter ==
    (Executed /\ ~StringParams) =>
        /\ call.step = "parameters"
        /\ call.err.Message =
              IF call.operation = NotAString
              THEN "operation parameter is required and must be a string"
              ELSE IF call.resource = NotAString
              THEN "resource parameter is required and must be a string"
              ELSE "args parameter is required and must be a string"
        /\ call.command = <<>>
        /\ ~call.ran

\* a call without a resource, to no known tool, was rejected for the resource
C15_Witness ==
    /\ Executed
    /\ call.toolName = ""
    /\ call.operation = <<"v","e","r","s","i","o","n">>
    /\ call.resource = NotAString
    /\ call.err = Error("resource parameter is required and must be a string", <<>>)

\* the operations each structured tool enumerates
EnumeratedOperations(toolName) ==
    CASE toolName = "kubectl_resources" ->
            {<<"g","e","t">>, <<"d","e","s","c","r","i","b","e">>, <<"c","r","e","a","t","e">>, <<"d","e","l","e","t","e">>, <<"a","p","p","l","y">>, <<"p","a","t","c","h">>, <<"r","e","p","l","a","c","e">>}
      [] toolName = "kubectl_workloads" ->
            {<<"r","u","n">>, <<"e","x","p","o","s","e">>, <<"s","c","a","l","e">>, <<"a","u","t","o","s","c","a","l","e">>, <<"r","o","l","l","o","u","t">>}
      [] toolName = "kubectl_metadata" -> {<<"l","a","b","e","l">>, <<"a","n","n","o","t","a","t","e">>, <<"s","e","t">>}
      [] toolName = "kubectl_diagnostics" -> {<<"l","o","g","s">>, <<"e","v","e","n","t","s">>, <<"t","o","p">>, <<"e","x","e","c">>, <<"c","p">>}
      [] toolName = "kubectl_cluster" ->
            {<<"c","l","u","s","t","e","r","-","i","n","f","o">>, <<"a","p","i","-","r","e","s","o","u","r","c","e","s">>, <<"a","p","i","-","v","e","r","s","i","o","n","s">>, <<"e","x","p","l","a","i","n">>}
      [] toolName = "kubectl_nodes" -> {<<"c","o","r","d","o","n">>, <<"u","n","c","o","r","d","o","n">>, <<"d","r","a","i","n">>, <<"t","a","i","n","t">>}
      [] toolName = "kubectl_config" -> {<<"d","i","f","f">>, <<"a","u","t","h">>, <<"c","e","r","t","i","f","i","c","a","t","e">>}
      [] OTHER -> {}

\* the pair of the call is one its tool enumerates
EnumeratedPair ==
    /\ call.operation \in EnumeratedOperations(call.toolName)
    /\ call.operation = <<"r","o","l","l","o","u","t">> =>
           call.resource \in {<<"s","t","a","t","u","s">>, <<"h","i","s","t","o","r","y">>, <<"u","n","d","o">>, <<"r","e","s","t","a","r","t">>, <<"p","a","u","s","e">>, <<"r","e","s","u","m","e">>}
    /\ call.operation = <<"a","u","t","h">> => call.resource = <<"c","a","n","-","i">>
    /\ call.operation = <<"c","e","r","t","i","f","i","c","a","t","e">> => call.resource \in {<<"a","p","p","r","o","v","e">>, <<"d","e","n","y">>}

\* the fragment the call's operation and resource are mapped to
Fragment == MapOperationToCommand(call.toolName, call.operation, call.resource)

\* s after a single space, or nothing for the empty s
Spaced(s) == IF s = <<>> THEN <<>> ELSE <<" ">> \o s

-----------------------------------------------------------------------------
\* C16: a structured call with string parameters is rejected at the
\* combination validation exactly when its tool does not enumerate its
\* (operation, resource) pair, an unknown tool enumerating none; the
\* rejection is an error and comes before any command is built.
C16_ExactCombinations ==
    (Executed /\ StringParams) =>
        /\ call.step = "validateCombination" <=> ~EnumeratedPair
        /\ call.step = "validateCombination" =>
              call.err # nil /\ call.command = <<>> /\ ~call.ran

\* rollout with a resource that is no rollout subcommand was rejected
C16_Witness ==
    /\ Executed
    /\ call.toolName = "kubectl_workloads"
    /\ call.operation = <<"r","o","l","l","o","u","t">>
    /\ call.resource = <<"p","o","d","s">>
    /\ call.step = "validateCombination"
    /\ call.err.Message = "invalid rollout subcommand '%s'. Valid subcommands: %s"

-----------------------------------------------------------------------------
\* Vocabulary of the properties of the category.

\* determineCommandCategory returned for the drawn command
Categorised == pc = "category" /\ call.entry = "determineCommandCategory"

CategoryRank(category) ==
    CASE category = <<"r","e","a","d","-","o","n","l","y">> -> 1
      [] category = <<"r","e","a","d","-","w","r","i","t","e">> -> 2
      [] category = <<"a","d","m","i","n">> -> 3
      [] OTHER -> 0

\* the two forms the category treats by their subcommand
SpecialForm ==
    \/ call.operation = <<"r","o","l","l","o","u","t">> /\ call.resource \in {<<"s","t","a","t","u","s">>, <<"h","i","s","t","o","r","y">>}
    \/ call.operation = <<"a","u","t","h">> /\ call.resource = <<"c","a","n","-","i">>

\* the tables of a family, and the static lists, that hold the token
TablesHolding(commandType, operation) ==
    {t \in {"read", "readwrite", "admin"} :
        isOperationInList(operation,
            CASE t = "read" -> getReadOperationsList(commandType)
              [] t = "readwrite" -> getReadWriteOperationsList(commandType)
              [] OTHER -> getAdminOperationsList(commandType))}

ListsHolding(operation) ==
    {t \in {"read", "readwrite", "admin"} :
        InOps(operation,
            CASE t = "read" -> GetReadOnlyKubectlCommands
              [] t = "readwrite" -> GetReadWriteKubectlCommands
              [] OTHER -> GetAdminKubectlCommands)}

-----------------------------------------------------------------------------
\* C18: for a command whose first token is an operation of one of the three
\* kubectl tables, rollout status/history and auth can-i apart, the category
\* determineCommandCategory returns is the tier of the table that holds the
\* operation.
C18_CategoryMatchesTables ==
    (Categorised /\ TierRank(call.operation) <= 3 /\ ~SpecialForm) =>
        CategoryRank(call.category) = TierRank(call.operation)

\* C19: an operation token is in at most one of the three tables of each
\* CLI family, and in at most one of the three static lists.
C19_TablesDisjoint ==
    Categorised =>
        /\ \A commandType \in {CommandTypeKubectl, CommandTypeHelm,
                                CommandTypeCilium, CommandTypeHubble} :
              Cardinality(TablesHolding(commandType, call.operation)) <= 1
        /\ Cardinality(ListsHolding(call.operation)) <= 1

\* a token of the admin table and the admin list only was categorised
C19_Witness ==
    /\ Categorised
    /\ call.operation = <<"d","r","a","i","n">>
    /\ TablesHolding(CommandTypeKubectl, call.operation) = {"admin"}
    /\ ListsHolding(call.operation) = {"admin"}
    /\ call.category = <<"a","d","m","i","n">>

-----------------------------------------------------------------------------
\* Vocabulary of the properties of the allow-list.

\* IsNamespaceAllowed returned for the drawn namespace
Asked == pc = "allow-list" /\ call.entry = "IsNamespaceAllowed"

\* the tokens of the allow-list
AllowListTokens ==
    {TrimSpace(t) : t \in Range(Split(cfg.AllowNamespaces, ","))} \ {<<>>}

\* the token is to be applied as a pattern
IsPattern(token) ==
    /\ \E i \in DOMAIN token : token[i] \in regexSpecialChars
    /\ RegexpCompiles(token)

\* the whole of the name matches the token's expression: one of its
\* alternatives matches from the first character to the last
FullMatch(token, name) ==
    \E b \in Range(Branches(token)) : MatchHere(b \o <<"$">>, 1, name, 0)

-----------------------------------------------------------------------------
\* C20: a namespace is admitted only through a token that is a pattern the
\* whole name matches, or through a token that is no pattern and equals the
\* name.
C20_AnchoredPatterns ==
    (Asked /\ call.result = "true") =>
        \E token \in AllowListTokens :
            IF IsPattern(token) THEN FullMatch(token, call.args) ELSE token = call.args

-----------------------------------------------------------------------------
\* Vocabulary of the properties of the access level.

\* the permission tool returned its snapshot
Introspected == pc = "serving" /\ call.entry = "kubectl_check_permissions"

\* the configuration went through NewConfig, a successful ParseFlags and
\* possibly Initialize
Configured == pc \in {"new", "parsed", "serving"}

-----------------------------------------------------------------------------
\* C21: the current access level the permission tool reports is the level
\* checkAccessLevel and the Validator enforce at the call.
C21_ReportedLevelIsEnforced ==
    Introspected =>
        /\ call.metadata.CurrentAccessLevel = cfg.AccessLevel
        /\ LevelRank(call.metadata.CurrentAccessLevel) = LevelRank(cfg.SecurityConfig.AccessLevel)

\* C29: the access level string of the configuration and the access level of
\* the security configuration denote the same level from NewConfig on.
C29_LevelCopiesAgree ==
    Configured =>
        /\ cfg.AccessLevel \in {"readonly", "readwrite", "admin"}
        /\ cfg.SecurityConfig.AccessLevel =
              CASE cfg.AccessLevel = "readonly" -> AccessLevelReadOnly
                [] cfg.AccessLevel = "readwrite" -> AccessLevelReadWrite
                [] OTHER -> AccessLevelAdmin

\* the role marker was missing and both copies were downgraded
C29_Witness ==
    /\ pc = "serving"
    /\ permissionMetadata.RequestedAccessLevel = "admin"
    /\ permissionMetadata.WasDowngraded
    /\ ~permissionMetadata.ClusterRoleFound
    /\ permissionMetadata.ValidationError = ""
    /\ cfg.AccessLevel = "readonly"
    /\ cfg.SecurityConfig.AccessLevel = AccessLevelReadOnly

-----------------------------------------------------------------------------
\* Vocabulary of the properties of the PendingRequest.

TimeoutError == Error("timeout waiting for response", <<>>)

\* Wait is in its select, the timeout not elapsed
Waiting ==
    /\ pc = "pending"
    /\ goroutines["Wait"].pc = "select"
    /\ goroutines["Wait"].timer = "running"

\* Wait returned what the request was completed with
ReturnedCompletion ==
    /\ goroutines["Wait"].pc = "returned"
    /\ goroutines["Wait"].err # TimeoutError
    /\ pr.done
    /\ goroutines["Wait"].result = pr.result
    /\ goroutines["Wait"].err = pr.err

-----------------------------------------------------------------------------
\* C22: once the request is done no step changes done, result or err, and
\* a Wait that returns without the timeout error returns the result and err
\* of the request, which are those of the first Complete.
C22_CompletedOnce ==
    [][/\ pr.done => pr' = pr
       /\ (goroutines'["Wait"].pc = "returned" /\ goroutines'["Wait"].err # TimeoutError) =>
              /\ pr'.done
              /\ goroutines'["Wait"].result = pr'.result
              /\ goroutines'["Wait"].err = pr'.err]_vars

\* both Complete calls returned, the second with other values than the
\* request holds, and Wait returned the values of the request
C22_Witness ==
    /\ pc = "pending"
    /\ \A g \in Completers : goroutines[g].pc = "returned"
    /\ \E g \in Completers : goroutines[g].result # pr.result
    /\ ReturnedCompletion

-----------------------------------------------------------------------------
\* C24: with two remote calls outstanding on one worker, a response is
\* acknowledged only by the call it answers, and a call that returns a
\* result returns the stdout of its own response.
C24_ResponsesReachTheirCalls ==
    pc = "worker" =>
        /\ \A a \in worker.acked : a.by = a.msg.for
        /\ \A c \in HostCalls :
              (goroutines[c].pc = "returned" /\ goroutines[c].err = nil) =>
                  goroutines[c].result = Response(c, goroutines[c].id).stdout

-----------------------------------------------------------------------------
\* C25: the delay slept before attempt n + 1 is 2^n seconds for n up to 4
\* and 30 seconds from there on, for every n; an attempt that slept nothing
\* is attempt 0, which is also where the subscriber restarts after a receive
\* error.
C25_CappedBackoff ==
    pc = "subscriber" =>
        IF goroutines.subscriber.slept
        THEN /\ goroutines.subscriber.attempt >= 1
             /\ goroutines.subscriber.backoff =
                   IF goroutines.subscriber.attempt - 1 <= 4
                   THEN Mul(Second, WordOf(2^(goroutines.subscriber.attempt - 1)))
                   ELSE Mul(Second, WordOf(30))
        ELSE goroutines.subscriber.attempt = 0

-----------------------------------------------------------------------------
\* C26: the command line the runner gets for an accepted kubectl command is
\* the validated command with the binary name in front exactly once: its
\* tokens are those of the command when the first of them is kubectl, and
\* kubectl followed by those of the command otherwise.
C26_BinaryNameOnce ==
    (Handled /\ call.ran /\ call.commandType = CommandTypeKubectl) =>
        Fields(call.ranCmd) =
            IF Fields(call.command) # <<>> /\ Head(Fields(call.command)) = CommandTypeKubectl
            THEN Fields(call.command)
            ELSE <<CommandTypeKubectl>> \o Fields(call.command)

-----------------------------------------------------------------------------
\* the positions of the tokens that may be the operation, and the position of
\* the one operation extraction classifies (0 when there is none)
OperationIndexes ==
    {i \in DOMAIN CallTokens :
        ~HasPrefix(CallTokens[i], <<"-">>) /\ CallTokens[i] # call.commandType}

OperationIndex ==
    IF OperationIndexes = {} THEN 0
    ELSE CHOOSE i \in OperationIndexes : \A j \in OperationIndexes : i <= j

\* the namespace flag whose value namespace extraction returns: the leftmost
ExtractedFlags ==
    {f \in NamespaceFlags(CallTokens) :
        /\ \A g \in NamespaceFlags(CallTokens) : f[1] <= g[1]
        /\ f[3] = extractNamespaceFromCommand(call.command)}

\* C27: the token occurrence classified for the tier check is never the one
\* namespace extraction takes as the value of a -n/--namespace flag, so at
\* ReadOnly a command whose only read-only operation name is a namespace
\* value, followed by a read-write or admin operation, is denied.
C27_OperationIsNotANamespaceValue ==
    Validated =>
        /\ \A f \in ExtractedFlags : OperationIndex # f[2]
        /\ (/\ cfg.SecurityConfig.AccessLevel = AccessLevelReadOnly
            /\ \E f \in ExtractedFlags :
                   /\ TierRank(CallTokens[f[2]]) = 1
                   /\ \E i \in OperationIndexes :
                          i > f[2] /\ TierRank(CallTokens[i]) \in {2, 3}
                   /\ \A i \in OperationIndexes : i # f[2] => TierRank(CallTokens[i]) # 1)
                => ~Allowed

\* C28: with a non-empty allow-list an allowed command names, in all of its
\* -n/--namespace flags, only namespaces the allow-list admits.
C28_EveryNamedNamespaceAdmitted ==
    (Validated /\ ~Unrestricted /\ Allowed) =>
        \A x \in NamespaceValues : IsNamespaceAllowed(cfg.SecurityConfig, x)

-----------------------------------------------------------------------------
\* the read-only table of a family
FamilyReadOperations(commandType) ==
    CASE commandType = CommandTypeHelm -> Range(HelmReadOperations)
      [] commandType = CommandTypeCilium -> Range(CiliumReadOperations)
      [] commandType = CommandTypeHubble -> Range(HubbleReadOperations)

\* what the Validator returns for the call's command when configured at level
AtLevel(level) ==
    ValidateCommand([cfg.SecurityConfig EXCEPT !.AccessLevel = level],
                    call.command, call.commandType)

\* C30: for helm, cilium and hubble a command is allowed only if its operation
\* is in the family's read-only table, and it is allowed at the configured
\* level exactly when it is allowed at each of ReadOnly, ReadWrite and Admin:
\* with an unrestricted allow-list the allowed commands are exactly those
\* with a read-only operation, at all three levels.
C30_FamiliesLevelIndependent ==
    (Validated /\ call.commandType \in Families) =>
        /\ Allowed => OperationToken \in FamilyReadOperations(call.commandType)
        /\ \A level \in AccessLevels : (AtLevel(level) = nil) <=> Allowed
        /\ Unrestricted =>
               (Allowed <=> OperationToken \in FamilyReadOperations(call.commandType))

\* "helm install" was denied at Admin, and is denied at ReadOnly as well
C30_Witness ==
    /\ Validated
    /\ call.commandType = CommandTypeHelm
    /\ call.command = <<"h","e","l","m"," ","i","n","s","t","a","l","l">>
    /\ cfg.SecurityConfig.AccessLevel = AccessLevelAdmin
    /\ Unrestricted
    /\ ~Allowed
    /\ AtLevel(AccessLevelReadOnly) # nil

====
